---- MODULE Spec2Model ----
(***************************************************************************)
(* Campaign forwarding and monitoring engine of adbot.py.                  *)
(*                                                                         *)
(* The program is a single asyncio event loop: a coroutine runs without    *)
(* interruption from one await to the next, so every action below is one   *)
(* such segment of a command handler, of an engine task                    *)
(* (MessageForwarder.forward_stored_message) or of a live-monitor task     *)
(* (MonitorDashboard._live_monitor).                                       *)
(***************************************************************************)
EXTENDS Integers, Sequences, FiniteSets, TLC

(***************************************************************************)
(* Program constants.                                                      *)
(***************************************************************************)
batch_size == 20            \* adbot.py:1219
ConfirmAbove == 5           \* adbot.py:5458
max_retries == 3            \* adbot.py:1252
MinInterval == 60           \* adbot.py:2107, 2344, 2525
DefaultInterval == 300      \* adbot.py:1070
MinUpdateSpacing == 5       \* adbot.py:737
MaxCampaignDigit == 9       \* adbot.py:110
active_update_interval == 2     \* adbot.py:562
waiting_update_interval == 5    \* adbot.py:563
SafetyMargin == 5           \* adbot.py:757, 901
BackoffCap == 30            \* adbot.py:786
BackoffBase == 5            \* adbot.py:786
BackoffAfter == 3           \* adbot.py:783

(***************************************************************************)
(* Bounds of the model.                                                    *)
(***************************************************************************)
\* Spec: one engine task followed through its rounds, under every command
NumTargets == 2         \* size of the global target list (target_chats)
MaxRounds == 2          \* rounds an engine runs before the model stops it
MaxTime == 1            \* last value of the wall clock (whole seconds)
MaxIdDigit == 2         \* generate_campaign_id() draws from 1..MaxIdDigit
MaxHandlers == 1        \* command handlers suspended at an await at once
\* SpecCreate: campaign creation racing the engine tasks
CreateTasks == 2        \* engine tasks ever created in one behaviour
CreateTargets == 1
CreateRounds == 2
CreateTime == 2
FatalTasks == 2         \* engine tasks ever created in one behaviour
FatalTargets == 1
FatalRounds == 1
FatalTime == 2
\* SpecRemove: remove_failed_chats called on the ledger the engine fills
RemoveTasks == 1
RemoveTargets == 2
RemoveRounds == 1
RemoveTime == 1
MaxRemoves == 2          \* calls of remove_failed_chats in one behaviour
MaxChatIds == 2          \* length of the list remove_failed_chats is given
\* SpecRetry: /retryfailed and retry_failed_chats on the ledger the engine fills
RetryTasks == 1
RetryTargets == 1
RetryRounds == 1
RetryTime == 1
MaxRetries == 2          \* retry runs and retry tasks in one behaviour
\* SpecBatch: one campaign over more than two batches
BatchTargets == 45
BatchRounds == 2
BatchTime == 1
\* SpecForward: one-time forwards
ForwardHandlers == 2    \* /forward commands in one behaviour
ForwardTargets == 2
ForwardTime == 1
\* SpecMonitor: one campaign with its live monitor under a clock
MonitorTargets == 1
MonitorRounds == 1
MonitorTime == 12
FloodSeconds == 1       \* the wait a flood error of edit_message asks for
MaxMsgs == 1            \* messages stored at once
\* SpecLedger: campaigns that fail the same target
LedgerTasks == 2
LedgerTargets == 1
LedgerRounds == 1
LedgerTime == 2
\* SpecFlood: a live monitor whose pushes run into a flood wait
FloodWait == 12         \* the wait the flood error asks for
FloodTime == 28
\* SpecUnparsed: a live monitor whose pushes fail with a wait it cannot parse
UnparsedTime == 8
\* SpecAttach: one-time forwards that draw the same campaign ID
AttachForwards == 2
AttachTime == 5
\* SpecAdmin: commands of any sender
AdminTasks == 1
AdminTargets == 1
AdminRounds == 1
AdminTime == 1
MaxUserId == 2          \* user IDs other than the primary admin: 1..MaxUserId
\* SpecStartup: the admin set from the constructor on
MaxAdminIds == 3        \* entries of ADMIN_USER_IDS
\* SpecSchedule: scheduled forwards
MaxSchedules == 2
ScheduleTargets == 2
ScheduleTime == 2
MaxDelay == 1       \* a schedule time lies 0..MaxDelay after the command
\* SpecShutdown: a live monitor that is cancelled
ShutdownTime == 5
\* SpecOverlap: create-campaign handlers suspended at the same time
OverlapHandlers == 2
OverlapTasks == 2
OverlapRounds == 1
OverlapTime == 2
\* SpecBackoff: a live monitor whose pushes fail with an unknown error
BackoffClock == 5
MaxFailures == 7        \* consecutive failed pushes of a monitor
\* SpecLive: a one-time forward and its monitor under a clock that never stops
LiveForwards == 1
LiveTime == 5
\* SpecStop: /startad twice for one message, then /stopad
StopTasks == 2
StopRounds == 1
StopTime == 2
\* SpecTargets: the target list changes while a campaign runs
TargetsTargets == 2
TargetsRounds == 2
TargetsTime == 1
\* SpecDashboard: one campaign and the dashboard commands
DashboardTargets == 1
DashboardRounds == 1
DashboardTime == 1
\* SpecClassify: the error texts _classify_error is called with
MaxMarkers == 2         \* marker substrings in one text

Msgs == {"1"}

\* The interval argument of a command: absent, not an integer (int() raises
\* ValueError), or an integer.
NoArg == [given |-> FALSE, isint |-> FALSE, value |-> 0]
BadArg == [given |-> TRUE, isint |-> FALSE, value |-> 0]
IntArg(v) == [given |-> TRUE, isint |-> TRUE, value |-> v]
IntervalValues == {MinInterval - 1, MinInterval}
IntervalArgs == {NoArg, BadArg} \cup {IntArg(v) : v \in IntervalValues}

(***************************************************************************)
(* Error texts.  The code only ever tests an error text for substrings, so *)
(* a text is modelled by the set of marker substrings it contains, as      *)
(* written (case-sensitive).                                               *)
(***************************************************************************)
ErrorTexts == {{"banned"}, {"Too many"}}
FloodErrors == {{"Too many"}}

\* The substrings the code looks for, all in lower case, ...
Markers ==
    {"banned", "restrict", "not found", "invalid", "private", "access",
     "permission", "403", "too many", "420", "flood", "topic", "message",
     "timeout", "disconnect", "too long", "large", "wait"}

\* ... and the spellings of them in other letter cases that occur in texts
CaseTable ==
    {<<"Too many", "too many">>, <<"BANNED", "banned">>,
     <<"Banned", "banned">>, <<"NOT FOUND", "not found">>,
     <<"Not Found", "not found">>, <<"TOPIC", "topic">>,
     <<"Topic", "topic">>, <<"MESSAGE", "message">>,
     <<"Message", "message">>, <<"FLOOD", "flood">>,
     <<"Timeout", "timeout">>, <<"Private", "private">>,
     <<"INVALID", "invalid">>, <<"Too Long", "too long">>}

\* str.lower() of a marker
ToLower(s) ==
    IF \E p \in CaseTable : p[1] = s
    THEN (CHOOSE p \in CaseTable : p[1] = s)[2]
    ELSE s

\* sub in error_msg
InText(sub, err) == sub \in err
\* sub in error_msg.lower()
InLower(sub, err) == \E k \in err : ToLower(k) = sub

(***************************************************************************)
(* MessageForwarder._classify_error (lines 1506-1529).                     *)
(***************************************************************************)
ErrorTags ==
    {"banned", "not_found", "access_denied", "permission_denied",
     "rate_limited", "topic_not_found", "message_not_found",
     "connection_error", "content_too_large", "other"}

\* the elif chain applied to the text as written, without lower()
_classify_error_cased(error_message) ==
    LET has(sub) == InText(sub, error_message)
    IN  IF has("banned") \/ has("restrict") THEN "banned"
        ELSE IF has("not found") \/ has("invalid") THEN "not_found"
        ELSE IF has("private") \/ has("access") THEN "access_denied"
        ELSE IF has("permission") \/ has("403") THEN "permission_denied"
        ELSE IF has("too many") \/ has("420") \/ has("flood")
             THEN "rate_limited"
        ELSE IF has("topic") /\ has("not found") THEN "topic_not_found"
        ELSE IF has("message") /\ has("not found") THEN "message_not_found"
        ELSE IF has("timeout") \/ has("disconnect") THEN "connection_error"
        ELSE IF has("too long") \/ has("large") THEN "content_too_large"
        ELSE "other"

_classify_error(error_message) ==
    LET has(sub) == InLower(sub, error_message)
    IN  IF has("banned") \/ has("restrict") THEN "banned"
        ELSE IF has("not found") \/ has("invalid") THEN "not_found"
        ELSE IF has("private") \/ has("access") THEN "access_denied"
        ELSE IF has("permission") \/ has("403") THEN "permission_denied"
        ELSE IF has("too many") \/ has("420") \/ has("flood")
             THEN "rate_limited"
        ELSE IF has("topic") /\ has("not found") THEN "topic_not_found"
        ELSE IF has("message") /\ has("not found") THEN "message_not_found"
        ELSE IF has("timeout") \/ has("disconnect") THEN "connection_error"
        ELSE IF has("too long") \/ has("large") THEN "content_too_large"
        ELSE "other"

VARIABLES
    now,                \* time.time(), whole seconds
    stored_messages,    \* MessageForwarder.stored_messages (its keys)
    target_chats,       \* MessageForwarder.target_chats
    forward_interval,   \* MessageForwarder.forward_interval
    campaigns,          \* MonitorDashboard.campaigns: id -> record
    order,              \* insertion order of the keys of campaigns
    active_monitors,    \* MonitorDashboard.active_monitors (its keys)
    targeted_campaigns, \* MessageForwarder.targeted_campaigns (its keys)
    tasks,              \* every engine task created, in creation order
    ftasks,             \* MessageForwarder._forwarding_tasks: key -> task
    handlers,           \* command handlers suspended at an await
    processed,          \* history: id -> targets finished since add_campaign
    limits,             \* the bounds of the specification being checked
    forwards,           \* every cmd_forward run, in the order they started
    mtasks,             \* every live-monitor task created, in creation order
    failed_chats,       \* MessageForwarder.failed_chats: target -> record
    classified,         \* a call of _classify_error: its argument and result
    dashboard,          \* the last call of generate_dashboard: its result
    removed,            \* the last call of remove_failed_chats: its result
    retries,            \* every cmd_retry_failed run, in the order they started
    admins,             \* MessageForwarder.admins
    startup,            \* ADMIN_USER_IDS and how far main() has come
    received,           \* history: the last command dispatched
    scheduled_tasks     \* every _schedule_forward task, in creation order

vars == <<now, stored_messages, target_chats, forward_interval, campaigns,
          order, active_monitors, targeted_campaigns, tasks, ftasks,
          handlers, processed, limits, forwards, mtasks, failed_chats,
          classified, dashboard, removed, retries,
                   admins, startup, received, scheduled_tasks>>

Terminal == {"cancelled", "error", "completed", "stopped"}

(***************************************************************************)
(* Helpers on functions used as Python dicts.                              *)
(***************************************************************************)
EmptyDict == <<>>

DictSet(d, k, v) == [x \in DOMAIN d \cup {k} |-> IF x = k THEN v ELSE d[x]]

DictDel(d, k) == [x \in DOMAIN d \ {k} |-> d[x]]

\* list(a_set): the iteration order of a set is fixed for the life of the
\* set; targets are opaque, so they are named by that order.
RECURSIVE ListOf(_)
ListOf(S) ==
    IF S = {} THEN <<>>
    ELSE LET m == CHOOSE x \in S : \A y \in S : x <= y
         IN  <<m>> \o ListOf(S \ {m})

Min(a, b) == IF a < b THEN a ELSE b

Max(a, b) == IF a > b THEN a ELSE b

(***************************************************************************)
(* Campaign IDs.                                                           *)
(***************************************************************************)
\* f"adcampaign_{msg_id}_{timestamp}"
AdCampaignId(msg_id, timestamp) ==
    "adcampaign_" \o msg_id \o "_" \o ToString(timestamp)

\* f"targeted_{generate_campaign_id()}"
TargetedId(digit) == "targeted_" \o ToString(digit)

\* f"forward_{generate_campaign_id()}"
ForwardId(digit) == "forward_" \o ToString(digit)

\* f"sched_{generate_campaign_id()}"
ScheduleId(digit) == "sched_" \o ToString(digit)

(***************************************************************************)
(* MonitorDashboard: the campaign registry.                                *)
(***************************************************************************)
\* The record every creator passes to add_campaign; a key a creator leaves
\* out is read by the readers through .get(key, default) and gets that
\* default here.
CampaignData(msg_id, ntargets, interval, status) ==
    [msg_id |-> msg_id, targets |-> ntargets, interval |-> interval,
     rounds_completed |-> 0, total_sent |-> 0, failed_sends |-> 0,
     status |-> status, current_failures |-> EmptyDict,
     next_round_time |-> 0]

campaign_exists(camps, campaign_id) == campaign_id \in DOMAIN camps

\* self.campaigns[campaign_id] = data
add_campaign(camps, campaign_id, data) == DictSet(camps, campaign_id, data)

\* a dict keeps the position of a key that is assigned again
add_order(ord, camps, campaign_id) ==
    IF campaign_id \in DOMAIN camps THEN ord ELSE Append(ord, campaign_id)

\* if campaign_id in self.campaigns: self.campaigns[campaign_id].update(updates)
\* updates is a record holding a subset of the fields of a campaign.
update_campaign(camps, campaign_id, updates) ==
    IF campaign_id \in DOMAIN camps
    THEN [camps EXCEPT ![campaign_id] =
            [f \in DOMAIN @ |-> IF f \in DOMAIN updates THEN updates[f] ELSE @[f]]]
    ELSE camps

update_campaign_status(camps, campaign_id, status) ==
    IF campaign_id \in DOMAIN camps
    THEN [camps EXCEPT ![campaign_id].status = status]
    ELSE camps

(***************************************************************************)
(* MessageForwarder.failed_chats: the failure ledger (lines 1349-1409).    *)
(* The name, type and the two time stamps of a record are left out.        *)
(***************************************************************************)
\* A key of failed_chats is a Python value, written here as its type and its
\* text: the int 5 and the str '5' are different keys of a dict.
IntKey(n) == <<"int", ToString(n)>>

\* str(value)
str(value) == <<"str", value[2]>>

\* line 1352 for a target that is a plain chat ID
TargetKey(target) == IntKey(target)

HistoryEntry(campaign_marker, error_message) ==
    [campaign_id |-> campaign_marker,
     error_type |-> _classify_error(error_message),
     details |-> error_message]

\* lines 1372-1387
NewFailedChat(campaign_marker, error_message) ==
    [reason |-> _classify_error(error_message), detail |-> error_message,
     failed_count |-> 1, campaign_ids |-> {campaign_marker},
     error_history |-> <<HistoryEntry(campaign_marker, error_message)>>]

\* lines 1355-1407 with the record written anew for a target that has one
record_failure_overwrites(ledger, target_key, campaign_marker, error_message) ==
    DictSet(ledger, target_key, NewFailedChat(campaign_marker, error_message))

\* lines 1355-1407: create the record of the target or update it
record_failure(ledger, target_key, campaign_marker, error_message) ==
    IF target_key \notin DOMAIN ledger
    THEN DictSet(ledger, target_key,
                 NewFailedChat(campaign_marker, error_message))
    ELSE [ledger EXCEPT ![target_key] =
            [@ EXCEPT !.reason = _classify_error(error_message),
                      !.detail = error_message,
                      !.failed_count = @ + 1,
                      !.campaign_ids = @ \cup {campaign_marker},
                      !.error_history =
                          Append(@, HistoryEntry(campaign_marker,
                                                 error_message))]]

\* "targeted_" in campaign_id (line 951): of the IDs the commands build,
\* those of cmd_targetedad
IsTargeted(campaign_id) ==
    \E digit \in 1..MaxCampaignDigit : campaign_id = TargetedId(digit)

\* MonitorDashboard.generate_dashboard (lines 934-1047): the campaigns the
\* ACTIVE and the INACTIVE section list, each with the status it was listed
\* under; active_count and inactive_count are the sizes of the two
ActiveStatus == {"sending", "sending_with_errors", "waiting", "scheduled"}

generate_dashboard(camps, targeted_only) ==
    LET listed == {id \in DOMAIN camps : targeted_only => IsTargeted(id)}
    IN  [rendered |-> TRUE,
         active |-> {<<id, camps[id].status>> :
                        id \in {x \in listed : camps[x].status \in ActiveStatus}},
         inactive |-> {<<id, camps[id].status>> :
                        id \in {x \in listed :
                                   camps[x].status \notin ActiveStatus}}]

\* generate_dashboard and remove_failed_chats have not been called
NotRendered == [rendered |-> FALSE, active |-> {}, inactive |-> {}]

\* the argument chat_ids: None or a list of chat IDs
NoChatIds == [none |-> TRUE, ids |-> <<>>]

ChatIds(ids) == [none |-> FALSE, ids |-> ids]

NotRemoved == [calls |-> 0, chat_ids |-> NoChatIds, removed_count |-> 0]

\* lines 5634-5640: the loop over chat_ids
RECURSIVE RemoveListed(_, _, _)
RemoveListed(ledger, ids, removed_count) ==
    IF ids = <<>>
    THEN [failed_chats |-> ledger, removed_count |-> removed_count]
    ELSE LET chat_id_str == str(Head(ids))
         IN  IF chat_id_str \in DOMAIN ledger
             THEN RemoveListed(DictDel(ledger, chat_id_str), Tail(ids),
                               removed_count + 1)
             ELSE RemoveListed(ledger, Tail(ids), removed_count)

\* lines 5612-5642
remove_failed_chats(ledger, chat_ids) ==
    IF ~chat_ids.none /\ chat_ids.ids = <<>>
    THEN [failed_chats |-> ledger, removed_count |-> 0]
    ELSE IF chat_ids.none
         THEN [failed_chats |-> EmptyDict,
               removed_count |-> Cardinality(DOMAIN ledger)]
         ELSE RemoveListed(ledger, chat_ids.ids, 0)

\* no call of _classify_error is under observation
NotClassified == [error_message |-> {}, tag |-> "", returned |-> FALSE]

\* history: add_campaign starts the count of finished targets again
ResetProcessed(proc, campaign_id) == DictSet(proc, campaign_id, 0)

BumpProcessed(proc, campaign_id) ==
    IF campaign_id \in DOMAIN proc
    THEN [proc EXCEPT ![campaign_id] = @ + 1]
    ELSE proc

(***************************************************************************)
(* MessageForwarder.forward_stored_message: the engine task.               *)
(*                                                                         *)
(* pc is the await the task is suspended at:                               *)
(*   created        the task exists and has not run yet                    *)
(*   attempt        get_me / ForwardMessagesRequest of one delivery attempt*)
(*   flood_sleep    asyncio.sleep(5) after a rate-limit error              *)
(*   retry_sleep    asyncio.sleep(2) before the next attempt               *)
(*   natural_delay  human_behavior.natural_delay after a delivery          *)
(*   batch_sleep    asyncio.sleep(5) after the batch loop                  *)
(*   interval_sleep asyncio.sleep(use_interval) after a round              *)
(*   done           the coroutine has returned or was cancelled unstarted  *)
(***************************************************************************)
NewTask(key, msg_id, campaign_id, targets_none, targets, interval) ==
    [key |-> key, msg_id |-> msg_id, campaign_marker |-> campaign_id,
     \* targets is None: use_targets is self.target_chats itself
     targets_none |-> targets_none, targets |-> targets,
     use_interval |-> interval,
     pc |-> "created", must_cancel |-> FALSE,
     round_number |-> 0, target_list |-> <<>>, i |-> 0, j |-> 0,
     retry |-> 0, success_count |-> 0, failure_count |-> 0,
     current_failures |-> EmptyDict, error_msg |-> {},
     \* history: the targets of this round in the order their first attempt
     \* started
     attempted |-> <<>>,
     \* how the coroutine ended: "" while it has not, else "returned",
     \* "cancelled" (cancelled before its first step) or "raised"
     outcome |-> ""]

\* The frame of a coroutine that has ended is gone: its locals are cleared.
Ended(t, outcome) ==
    [NewTask(t.key, t.msg_id, t.campaign_marker, t.targets_none, t.targets,
             t.use_interval)
        EXCEPT !.pc = "done", !.outcome = outcome]

\* what a segment of the engine leaves: its frame, the registry, the
\* history count and the failure it has entered in the ledger, if any
NoFailure ==
    [happened |-> FALSE, target |-> 0, campaign_marker |-> "",
     error_message |-> {}]

Seg(t, c, p) == [t |-> t, c |-> c, p |-> p, fail |-> NoFailure]

use_targets(t) == IF t.targets_none THEN target_chats ELSE t.targets

\* current_data.get(field, 0) of the campaign the task writes to
Latest(camps, t, field) ==
    IF t.campaign_marker \in DOMAIN camps
    THEN camps[t.campaign_marker][field] ELSE 0

\* Batch with a slice that ends one element late
BatchOverlapping(target_list, i) ==
    SubSeq(target_list, i + 1, Min(i + batch_size + 1, Len(target_list)))

\* batch = target_list[i:i + batch_size]
Batch(target_list, i) ==
    SubSeq(target_list, i + 1, Min(i + batch_size, Len(target_list)))

CurrentTarget(t) == Batch(t.target_list, t.i)[t.j + 1]

\* the retry loop enters an attempt for the current target
\* (error_msg is assigned again before it is next read)
StartAttempt(t) ==
    [t EXCEPT !.pc = "attempt", !.error_msg = {},
              !.attempted = IF t.retry = 0 THEN Append(@, CurrentTarget(t))
                            ELSE @]

\* RoundEnd that writes the status and leaves next_round_time as it was
RoundEndKeepsTime(t, camps, proc) ==
    Seg([t EXCEPT !.pc = "interval_sleep"],
        update_campaign(camps, t.campaign_marker,
            [rounds_completed |-> t.round_number,
             total_sent |-> Latest(camps, t, "total_sent"),
             failed_sends |-> Latest(camps, t, "failed_sends"),
             current_failures |-> t.current_failures,
             status |-> "waiting"]),
        proc)

\* lines 1465-1489: the round-boundary write, then the interval sleep
RoundEnd(t, camps, proc) ==
    Seg([t EXCEPT !.pc = "interval_sleep"],
        update_campaign(camps, t.campaign_marker,
            [rounds_completed |-> t.round_number,
             total_sent |-> Latest(camps, t, "total_sent"),
             failed_sends |-> Latest(camps, t, "failed_sends"),
             current_failures |-> t.current_failures,
             status |-> "waiting",
             next_round_time |-> now + t.use_interval]),
        proc)

\* lines 1429-1459: the update made after the targets of a batch
BatchUpdate(t, camps) ==
    LET batch == Batch(t.target_list, t.i)
    IN  IF (Len(batch) % 5 = 0) \/ (Len(batch) < 5)
        THEN update_campaign(camps, t.campaign_marker,
                [total_sent |-> Latest(camps, t, "total_sent"),
                 failed_sends |-> Latest(camps, t, "failed_sends"),
                 current_failures |-> t.current_failures,
                 status |-> "sending"])
        ELSE camps

\* lines 1461-1463, after the batch loop, with last_batch_index = t.i
AfterBatches(t, camps, proc) ==
    IF t.i + batch_size < Len(t.target_list)
    THEN Seg([t EXCEPT !.pc = "batch_sleep"], camps, proc)
    ELSE RoundEnd(t, camps, proc)

\* the loops of lines 1222 and 1229 move on from a finished target
AfterTarget(t, camps, proc) ==
    IF t.j + 1 < Len(Batch(t.target_list, t.i))
    THEN Seg(StartAttempt([t EXCEPT !.j = @ + 1, !.retry = 0]), camps, proc)
    ELSE LET camps1 == BatchUpdate(t, camps)
         IN  IF t.i + batch_size < Len(t.target_list)
             THEN Seg(StartAttempt([t EXCEPT !.i = @ + batch_size, !.j = 0,
                                             !.retry = 0]),
                      camps1, proc)
             ELSE AfterBatches(t, camps1, proc)

\* RoundStart with the counters of the record set back to zero for the round
RoundStartResets(t, camps, proc) ==
    IF t.msg_id \notin stored_messages
    THEN Seg(Ended(t, "returned"),
             update_campaign_status(camps, t.campaign_marker, "stopped"), proc)
    ELSE LET t1 == [t EXCEPT !.round_number = @ + 1, !.success_count = 0,
                             !.failure_count = 0,
                             !.current_failures = EmptyDict,
                             !.target_list = ListOf(use_targets(t)),
                             !.i = 0, !.j = 0, !.retry = 0,
                             !.attempted = <<>>]
             camps1 == update_campaign(camps, t.campaign_marker,
                          [rounds_completed |-> t1.round_number - 1,
                           total_sent |-> 0, failed_sends |-> 0,
                           status |-> "sending"])
         IN  IF Len(t1.target_list) = 0
             THEN AfterBatches(t1, camps1, proc)
             ELSE Seg(StartAttempt(t1), camps1, proc)

\* lines 1194-1229: the top of the while loop up to the first attempt
RoundStart(t, camps, proc) ==
    IF t.msg_id \notin stored_messages
    THEN Seg(Ended(t, "returned"),
             update_campaign_status(camps, t.campaign_marker, "stopped"), proc)
    ELSE LET t1 == [t EXCEPT !.round_number = @ + 1, !.success_count = 0,
                             !.failure_count = 0,
                             !.current_failures = EmptyDict,
                             !.target_list = ListOf(use_targets(t)),
                             !.i = 0, !.j = 0, !.retry = 0,
                             !.attempted = <<>>]
             camps1 == update_campaign(camps, t.campaign_marker,
                          [rounds_completed |-> t1.round_number - 1,
                           status |-> "sending"])
         IN  IF Len(t1.target_list) = 0
             THEN AfterBatches(t1, camps1, proc)
             ELSE Seg(StartAttempt(t1), camps1, proc)

\* TargetFailed with the failure handled as by lines 1496-1504, the handler
\* of the control loop
TargetFailedAborts(t, camps, proc) ==
    Seg(Ended(t, "returned"),
        update_campaign_status(camps, t.campaign_marker, "error"), proc)

\* lines 1342-1427: the target has used up its attempts
TargetFailed(t, camps, proc) ==
    LET cf == DictSet(t.current_failures, CurrentTarget(t), t.error_msg)
        t1 == [t EXCEPT !.failure_count = @ + 1, !.current_failures = cf]
        camps1 == update_campaign(camps, t.campaign_marker,
                     [failed_sends |-> Latest(camps, t, "failed_sends") + 1,
                      current_failures |-> cf,
                      status |-> "sending_with_errors"])
    IN  [AfterTarget(t1, camps1, BumpProcessed(proc, t.campaign_marker))
         EXCEPT !.fail = [happened |-> TRUE, target |-> CurrentTarget(t),
                          campaign_marker |-> t.campaign_marker,
                          error_message |-> t.error_msg]]

\* AfterFailedAttempt that gives up one attempt later
AfterFailedAttemptLate(t, camps, proc) ==
    IF t.retry = max_retries
    THEN TargetFailed(t, camps, proc)
    ELSE Seg([t EXCEPT !.pc = "retry_sleep"], camps, proc)

\* lines 1319-1321: raise after the last attempt, else sleep and retry
AfterFailedAttempt(t, camps, proc) ==
    IF t.retry = max_retries - 1
    THEN TargetFailed(t, camps, proc)
    ELSE Seg([t EXCEPT !.pc = "retry_sleep"], camps, proc)

\* lines 1307-1317: the elif chain reaches asyncio.sleep(5)
FloodCooldown(err) ==
    /\ ~InLower("banned", err)
    /\ ~InLower("not found", err)
    /\ ~InLower("private", err)
    /\ ~(InLower("permission", err) \/ InText("403", err))
    /\ (InText("Too many", err) \/ InText("420", err))

\* lines 1281-1301 and 1323-1341: the attempt delivered
AttemptOk(t, camps, proc) ==
    Seg([t EXCEPT !.success_count = @ + 1, !.pc = "natural_delay"],
        update_campaign(camps, t.campaign_marker,
            [total_sent |-> Latest(camps, t, "total_sent") + 1,
             status |-> "sending"]),
        BumpProcessed(proc, t.campaign_marker))

\* lines 1302-1321: the attempt raised err
AttemptFailed(t, camps, proc, err) ==
    LET t1 == [t EXCEPT !.error_msg = err]
    IN  IF FloodCooldown(err)
        THEN Seg([t1 EXCEPT !.pc = "flood_sleep"], camps, proc)
        ELSE AfterFailedAttempt(t1, camps, proc)

\* Cancelled with the CancelledError raised again and no status written
CancelledReraised(t, camps, proc) ==
    IF t.pc = "created"
    THEN Seg(Ended(t, "cancelled"), camps, proc)
    ELSE Seg(Ended(t, "raised"), camps, proc)

\* lines 1491-1495: CancelledError reaches the coroutine at its await; a
\* task cancelled before its first step never runs its body
Cancelled(t, camps, proc) ==
    IF t.pc = "created"
    THEN Seg(Ended(t, "cancelled"), camps, proc)
    ELSE Seg(Ended(t, "returned"),
             update_campaign_status(camps, t.campaign_marker, "cancelled"),
             proc)

\* lines 1149-1192: the first step of the coroutine
Begin(t, camps, proc) ==
    IF t.msg_id \notin stored_messages
    THEN Seg(Ended(t, "returned"),
             add_campaign(camps, t.campaign_marker,
                          CampaignData(t.msg_id, 0, 0, "error")),
             ResetProcessed(proc, t.campaign_marker))
    ELSE RoundStart(t,
             add_campaign(camps, t.campaign_marker,
                 CampaignData(t.msg_id, Cardinality(use_targets(t)),
                              t.use_interval, "running")),
             ResetProcessed(proc, t.campaign_marker))

Running(e) == tasks[e].pc # "done" /\ ~tasks[e].must_cancel

EngineDo(e, r) ==
    /\ tasks' = [tasks EXCEPT ![e] = r.t]
    /\ campaigns' = r.c
    /\ processed' = r.p
    /\ order' = IF DOMAIN r.c = DOMAIN campaigns THEN order
                 ELSE Append(order, tasks[e].campaign_marker)
    /\ failed_chats' =
           IF r.fail.happened
           THEN record_failure(failed_chats, TargetKey(r.fail.target),
                               r.fail.campaign_marker, r.fail.error_message)
           ELSE failed_chats
    /\ UNCHANGED <<now, stored_messages, target_chats, forward_interval,
                   active_monitors, targeted_campaigns, ftasks, handlers,
                   limits, forwards, mtasks, classified,
                   dashboard, removed, retries,
                   admins, startup, received, scheduled_tasks>>

EngineBegin(e) ==
    /\ Running(e) /\ tasks[e].pc = "created"
    /\ EngineDo(e, Begin(tasks[e], campaigns, processed))

EngineAttemptOk(e) ==
    /\ Running(e) /\ tasks[e].pc = "attempt"
    /\ EngineDo(e, AttemptOk(tasks[e], campaigns, processed))

EngineAttemptFailed(e) ==
    /\ Running(e) /\ tasks[e].pc = "attempt"
    /\ CurrentTarget(tasks[e]) \in limits.flaky
    /\ \E err \in limits.errors :
         EngineDo(e, AttemptFailed(tasks[e], campaigns, processed, err))

EngineFloodSleepDone(e) ==
    /\ Running(e) /\ tasks[e].pc = "flood_sleep"
    /\ EngineDo(e, AfterFailedAttempt(tasks[e], campaigns, processed))

EngineRetry(e) ==
    /\ Running(e) /\ tasks[e].pc = "retry_sleep"
    /\ EngineDo(e, Seg(StartAttempt([tasks[e] EXCEPT !.retry = @ + 1]),
                       campaigns, processed))

EngineNextTarget(e) ==
    /\ Running(e) /\ tasks[e].pc = "natural_delay"
    /\ EngineDo(e, AfterTarget(tasks[e], campaigns, processed))

EngineNextRound(e) ==
    /\ Running(e) /\ tasks[e].pc = "interval_sleep"
    /\ tasks[e].round_number < limits.maxRounds
    /\ EngineDo(e, RoundStart(tasks[e], campaigns, processed))

EngineCancelled(e) ==
    /\ tasks[e].must_cancel /\ tasks[e].pc # "done"
    /\ EngineDo(e, Cancelled(tasks[e], campaigns, processed))

\* the awaits of the control loop that lie outside the try of one target
ControlLoop == {"batch_sleep", "interval_sleep"}

\* lines 1496-1504: an exception other than CancelledError leaves the
\* control loop; the handler writes "error" to the campaign of the task and
\* deletes the task-table entry whose key is the message ID
EngineFatal(e) ==
    /\ Running(e) /\ tasks[e].pc \in ControlLoop
    /\ tasks' = [tasks EXCEPT ![e] = Ended(tasks[e], "returned")]
    /\ campaigns' = update_campaign_status(campaigns,
                                           tasks[e].campaign_marker, "error")
    /\ ftasks' = IF tasks[e].msg_id \in DOMAIN ftasks
                 THEN DictDel(ftasks, tasks[e].msg_id) ELSE ftasks
    /\ UNCHANGED <<now, stored_messages, target_chats, forward_interval,
                   order, active_monitors, targeted_campaigns, handlers,
                   processed, limits, forwards, mtasks, failed_chats,
                   classified, dashboard, removed, retries,
                   admins, startup, received, scheduled_tasks>>

(***************************************************************************)
(* Command handlers.  A handler that awaits between two segments that      *)
(* touch the state is kept in handlers while it is suspended.              *)
(***************************************************************************)
Handler(kind, pc, msg_id, campaign_id, interval, targets) ==
    [kind |-> kind, pc |-> pc, msg_id |-> msg_id, started |-> now,
     campaign_id |-> campaign_id, interval |-> interval, targets |-> targets]

RemoveAt(seq, n) == SubSeq(seq, 1, n - 1) \o SubSeq(seq, n + 1, Len(seq))

\* task.done()
Done(e) == tasks[e].pc = "done"

\* task.cancel(): CancelledError is thrown into the coroutine when the
\* event loop next runs it
cancel(ts, e) ==
    IF ts[e].pc = "done" THEN ts
    ELSE [ts EXCEPT ![e].must_cancel = TRUE]

\* ParseInterval without the comparison with the minimum
ParseIntervalNoMinimum(arg, default) ==
    IF ~arg.given THEN default
    ELSE IF ~arg.isint THEN 0 - 1
    ELSE arg.value

\* the interval a create-campaign command ends up with; Rejected when the
\* command replies with an error and returns (lines 2104-2112, 2520-2530)
Rejected == 0 - 1
ParseInterval(arg, default) ==
    IF ~arg.given THEN default
    ELSE IF ~arg.isint THEN Rejected
    ELSE IF arg.value < MinInterval THEN Rejected
    ELSE arg.value

TasksLeft ==
    Len(tasks) + Cardinality({n \in 1..Len(handlers) :
                                 handlers[n].pc = "animate"}) < limits.maxTasks

HandlerSlot == Len(handlers) < limits.maxHandlers

\* cmd_startad up to its first await (lines 2096-2136)
StartAd(msg_id, arg) ==
    LET interval == ParseInterval(arg, forward_interval)
        accepted == /\ interval # Rejected
                    /\ msg_id \in stored_messages
                    /\ target_chats # {}
    IN  /\ accepted => (TasksLeft /\ HandlerSlot)
        /\ IF accepted
           THEN /\ tasks' = IF msg_id \in DOMAIN ftasks
                            THEN cancel(tasks, ftasks[msg_id]) ELSE tasks
                /\ handlers' = Append(handlers,
                      Handler("startad", "animate", msg_id,
                              AdCampaignId(msg_id, now), interval, {}))
           ELSE /\ UNCHANGED <<tasks, handlers>>
        /\ UNCHANGED <<now, stored_messages, target_chats, forward_interval,
                       campaigns, order, active_monitors, targeted_campaigns,
                       ftasks, processed, limits,
                   forwards, mtasks,
                   failed_chats, classified,
                   dashboard, removed, retries,
                   admins, startup, received, scheduled_tasks>>

\* cmd_startad, lines 2155-2183: add_campaign and create_task
StartAdLaunch(n) ==
    LET h == handlers[n]
    IN  /\ h.kind = "startad" /\ h.pc = "animate"
        \* lines 2136-2153: the animation sleeps five times 0.8 s
        /\ now > h.started
        /\ campaigns' = add_campaign(campaigns, h.campaign_id,
              CampaignData(h.msg_id, Cardinality(target_chats), h.interval,
                           "running"))
        /\ order' = add_order(order, campaigns, h.campaign_id)
        /\ processed' = ResetProcessed(processed, h.campaign_id)
        /\ tasks' = Append(tasks, NewTask(h.msg_id, h.msg_id, h.campaign_id,
                                          TRUE, {}, h.interval))
        /\ ftasks' = DictSet(ftasks, h.msg_id, Len(tasks) + 1)
        /\ handlers' = [handlers EXCEPT ![n].pc = "launched"]
        /\ UNCHANGED <<now, stored_messages, target_chats, forward_interval,
                       active_monitors, targeted_campaigns, limits,
                   forwards, mtasks,
                   failed_chats, classified,
                   dashboard, removed, retries,
                   admins, startup, received, scheduled_tasks>>

\* MonitorDashboard.start_live_monitor (lines 551-554)
start_live_monitor(monitors, campaign_id) == monitors \cup {campaign_id}

\* the task start_live_monitor creates (line 553).  pc is the await the
\* task is suspended at:
\*   created        the task has not run yet
\*   edit           edit_message of the loop (line 738)
\*   flood_sleep    asyncio.sleep(new_wait_time) (line 762)
\*   backoff_sleep  asyncio.sleep(backoff_time) (line 787)
\*   sleep          asyncio.sleep(update_interval) (line 799)
\*   final_edit     edit_message of the final update (line 880)
\*   final_sleep    asyncio.sleep(wait_time) (line 903)
\*   final_retry    edit_message of the retry (line 906)
\*   done           the coroutine has returned
NewMonitor(campaign_id) ==
    [campaign_id |-> campaign_id, pc |-> "created",
     last_successful_update |-> 0, update_failures |-> 0, wake |-> 0,
     status |-> "",
     \* history: the time of the last push (edit_message call) of this task,
     \* -1 before the first, and the smallest distance between two of its
     \* pushes, counted up to MinUpdateSpacing
     last_push |-> 0 - 1, min_gap |-> MinUpdateSpacing]

\* MonitorDashboard.stop_live_monitor (lines 919-921)
stop_live_monitor(monitors, campaign_id) == monitors \ {campaign_id}

\* cmd_startad, lines 2200-2208, and cmd_targetedad, lines 2609-2612
StartMonitor(n) ==
    LET h == handlers[n]
    IN  /\ h.kind \in {"startad", "targetedad"} /\ h.pc = "launched"
        /\ active_monitors' = start_live_monitor(active_monitors, h.campaign_id)
        /\ mtasks' = Append(mtasks, NewMonitor(h.campaign_id))
        /\ handlers' = RemoveAt(handlers, n)
        /\ UNCHANGED <<now, stored_messages, target_chats, forward_interval,
                       campaigns, order, targeted_campaigns, tasks, ftasks,
                       processed, limits, forwards,
                   failed_chats, classified,
                   dashboard, removed, retries,
                   admins, startup, received, scheduled_tasks>>

\* cmd_targetedad up to its first await (lines 2361-2536)
TargetedAd(msg_id, targets, arg, digit) ==
    LET interval == ParseInterval(arg, forward_interval)
        accepted == /\ msg_id \in stored_messages
                    /\ targets # {}
                    /\ interval # Rejected
    IN  /\ accepted => (TasksLeft /\ HandlerSlot)
        /\ IF accepted
           THEN /\ handlers' = Append(handlers,
                      Handler("targetedad", "animate", msg_id,
                              TargetedId(digit), interval, targets))
           ELSE /\ UNCHANGED handlers
        /\ UNCHANGED <<now, stored_messages, target_chats, forward_interval,
                       campaigns, order, active_monitors, targeted_campaigns,
                       tasks, ftasks, processed, limits,
                   forwards, mtasks,
                   failed_chats, classified,
                   dashboard, removed, retries,
                   admins, startup, received, scheduled_tasks>>

\* cmd_targetedad, lines 2553-2585
TargetedAdLaunch(n) ==
    LET h == handlers[n]
    IN  /\ h.kind = "targetedad" /\ h.pc = "animate"
        \* lines 2538-2551: the animation sleeps between its phases
        /\ now > h.started
        /\ targeted_campaigns' = targeted_campaigns \cup {h.campaign_id}
        /\ campaigns' = add_campaign(campaigns, h.campaign_id,
              CampaignData(h.msg_id, Cardinality(h.targets), h.interval,
                           "running"))
        /\ order' = add_order(order, campaigns, h.campaign_id)
        /\ processed' = ResetProcessed(processed, h.campaign_id)
        /\ tasks' = Append(tasks, NewTask(h.campaign_id, h.msg_id,
                                          h.campaign_id, FALSE, h.targets,
                                          h.interval))
        /\ ftasks' = DictSet(ftasks, h.campaign_id, Len(tasks) + 1)
        /\ handlers' = [handlers EXCEPT ![n].pc = "launched"]
        /\ UNCHANGED <<now, stored_messages, target_chats, forward_interval,
                       active_monitors, limits,
                   forwards, mtasks,
                   failed_chats, classified,
                   dashboard, removed, retries,
                   admins, startup, received, scheduled_tasks>>

\* cmd_stopad, lines 2286-2291: the first campaign of the registry whose
\* msg_id is the argument; "" stands for None
FindCampaign(camps, ord, msg_id) ==
    LET hits == {k \in 1..Len(ord) : camps[ord[k]].msg_id = msg_id}
    IN  IF hits = {} THEN ""
        ELSE ord[CHOOSE k \in hits : \A k2 \in hits : k <= k2]

\* StopAd with lines 2297-2300 outside the test of line 2293
StopAdUnguarded(msg_id) ==
    LET campaign_id == FindCampaign(campaigns, order, msg_id)
        active == msg_id \in DOMAIN ftasks /\ ~Done(ftasks[msg_id])
    IN  /\ IF active
           THEN /\ tasks' = cancel(tasks, ftasks[msg_id])
                /\ ftasks' = DictDel(ftasks, msg_id)
           ELSE /\ UNCHANGED <<tasks, ftasks>>
        /\ IF campaign_id # "" /\ campaign_exists(campaigns, campaign_id)
           THEN /\ campaigns' = update_campaign_status(
                                   campaigns, campaign_id, "stopped")
                /\ active_monitors' =
                      stop_live_monitor(active_monitors, campaign_id)
           ELSE UNCHANGED <<campaigns, active_monitors>>
        /\ UNCHANGED <<now, stored_messages, target_chats, forward_interval,
                       order, targeted_campaigns, handlers, processed, limits,
                   forwards, mtasks,
                   failed_chats, classified,
                   dashboard, removed, retries,
                   admins, startup, received, scheduled_tasks>>

\* cmd_stopad <msg_id>, lines 2278-2327
StopAd(msg_id) ==
    LET campaign_id == FindCampaign(campaigns, order, msg_id)
        active == msg_id \in DOMAIN ftasks /\ ~Done(ftasks[msg_id])
    IN  /\ IF active
           THEN /\ tasks' = cancel(tasks, ftasks[msg_id])
                /\ ftasks' = DictDel(ftasks, msg_id)
                /\ IF campaign_id # "" /\ campaign_exists(campaigns, campaign_id)
                   THEN /\ campaigns' = update_campaign_status(
                                           campaigns, campaign_id, "stopped")
                        /\ active_monitors' =
                              stop_live_monitor(active_monitors, campaign_id)
                   ELSE UNCHANGED <<campaigns, active_monitors>>
           ELSE /\ UNCHANGED <<tasks, ftasks, campaigns, active_monitors>>
        /\ UNCHANGED <<now, stored_messages, target_chats, forward_interval,
                       order, targeted_campaigns, handlers, processed, limits,
                   forwards, mtasks,
                   failed_chats, classified,
                   dashboard, removed, retries,
                   admins, startup, received, scheduled_tasks>>

\* cmd_stopad without argument, lines 2240-2276
RECURSIVE CancelAll(_, _)
CancelAll(ts, es) ==
    IF es = {} THEN ts
    ELSE LET e == CHOOSE x \in es : TRUE
         IN  CancelAll(cancel(ts, e), es \ {e})

RECURSIVE StopAll(_, _)
StopAll(camps, ids) ==
    IF ids = {} THEN camps
    ELSE LET c == CHOOSE x \in ids : TRUE
         IN  StopAll(update_campaign_status(camps, c, "stopped"), ids \ {c})

StopAdAll ==
    LET live == {k \in DOMAIN ftasks : ~Done(ftasks[k])}
    IN  /\ tasks' = CancelAll(tasks, {ftasks[k] : k \in live})
        /\ campaigns' = StopAll(campaigns,
                                {k \in live : campaign_exists(campaigns, k)})
        /\ active_monitors' = {}
        /\ ftasks' = EmptyDict
        /\ UNCHANGED <<now, stored_messages, target_chats, forward_interval,
                       order, targeted_campaigns, handlers, processed, limits,
                   forwards, mtasks,
                   failed_chats, classified,
                   dashboard, removed, retries,
                   admins, startup, received, scheduled_tasks>>

\* cmd_removead, lines 2064-2091
RemoveAd(msg_id) ==
    /\ IF msg_id \in stored_messages
       THEN /\ IF msg_id \in DOMAIN ftasks /\ ~Done(ftasks[msg_id])
               THEN /\ tasks' = cancel(tasks, ftasks[msg_id])
                    /\ ftasks' = DictDel(ftasks, msg_id)
               ELSE UNCHANGED <<tasks, ftasks>>
            /\ stored_messages' = stored_messages \ {msg_id}
       ELSE /\ UNCHANGED <<tasks, ftasks, stored_messages>>
    /\ UNCHANGED <<now, target_chats, forward_interval, campaigns, order,
                   active_monitors, targeted_campaigns, handlers, processed,
                   limits,
                   forwards, mtasks,
                   failed_chats, classified,
                   dashboard, removed, retries,
                   admins, startup, received, scheduled_tasks>>

\* cmd_setad, lines 2010-2033, for a command that replies to a message: the
\* ID is the first free serial number from len(stored_messages) + 1 on
RECURSIVE NextSerial(_, _)
NextSerial(stored, n) ==
    IF ToString(n) \in stored THEN NextSerial(stored, n + 1) ELSE ToString(n)

SetAd ==
    /\ Cardinality(stored_messages) < MaxMsgs
    /\ stored_messages' = stored_messages \cup
           {NextSerial(stored_messages, Cardinality(stored_messages) + 1)}
    /\ UNCHANGED <<now, target_chats, forward_interval, campaigns, order,
                   active_monitors, targeted_campaigns, tasks, ftasks,
                   handlers, processed, limits, forwards, mtasks,
                   failed_chats, classified,
                   dashboard, removed, retries,
                   admins, startup, received, scheduled_tasks>>

\* cmd_addtarget, lines 3255-3491, for a list of numeric chat IDs: every ID
\* is added (line 3459) with no await between two of them
AddTarget(chat_ids) ==
    /\ target_chats' = target_chats \cup chat_ids
    /\ UNCHANGED <<now, stored_messages, forward_interval, campaigns, order,
                   active_monitors, targeted_campaigns, tasks, ftasks,
                   handlers, processed, limits, forwards, mtasks,
                   failed_chats, classified,
                   dashboard, removed, retries,
                   admins, startup, received, scheduled_tasks>>

\* cmd_removealltarget, lines 3745-3759
RemoveAllTarget ==
    /\ target_chats' = {}
    /\ UNCHANGED <<now, stored_messages, forward_interval, campaigns, order,
                   active_monitors, targeted_campaigns, tasks, ftasks,
                   handlers, processed, limits, forwards, mtasks,
                   failed_chats, classified,
                   dashboard, removed, retries,
                   admins, startup, received, scheduled_tasks>>

\* cmd_monitor (line 4984) and cmd_listtargeted (line 2648) render the
\* dashboard
ShowDashboard(targeted_only) ==
    /\ dashboard' = generate_dashboard(campaigns, targeted_only)
    /\ UNCHANGED <<now, stored_messages, target_chats, forward_interval,
                   campaigns, order, active_monitors, targeted_campaigns,
                   tasks, ftasks, handlers, processed, limits, forwards,
                   mtasks, failed_chats, classified, removed, retries,
                   admins, startup, received, scheduled_tasks>>

\* cmd_timer, lines 2334-2356
Timer(arg) ==
    LET interval == ParseInterval(arg, Rejected)
    IN  /\ forward_interval' =
              IF interval = Rejected THEN forward_interval ELSE interval
        /\ UNCHANGED <<now, stored_messages, target_chats, campaigns, order,
                       active_monitors, targeted_campaigns, tasks, ftasks,
                       handlers, processed, limits,
                   forwards, mtasks,
                   failed_chats, classified,
                   dashboard, removed, retries,
                   admins, startup, received, scheduled_tasks>>

\* time passes
Tick ==
    /\ now < limits.maxTime
    /\ now' = now + 1
    /\ UNCHANGED <<stored_messages, target_chats, forward_interval, campaigns,
                   order, active_monitors, targeted_campaigns, tasks, ftasks,
                   handlers, processed, limits,
                   forwards, mtasks,
                   failed_chats, classified,
                   dashboard, removed, retries,
                   admins, startup, received, scheduled_tasks>>

(***************************************************************************)
(* MonitorDashboard._live_monitor: the live-monitor task.                  *)
(*                                                                         *)
(* The text of an edit_message error is modelled by the marker substrings  *)
(* it contains in lower case, the number the pattern 'of (\d+) seconds'    *)
(* of line 753 finds in it and the number the pattern                      *)
(* 'A wait of (\d+) seconds' of line 896 finds in it (-1: no match).       *)
(***************************************************************************)
EditError(markers, of_seconds, a_wait_of_seconds) ==
    [markers |-> markers, of_seconds |-> of_seconds,
     a_wait_of_seconds |-> a_wait_of_seconds]

\* "A wait of <n> seconds is required"
FloodWaitError(n) == EditError({"wait"}, n, n)

\* the frame of a monitor that has returned is gone
EndedMonitor(m) ==
    [NewMonitor(m.campaign_id) EXCEPT !.pc = "done",
                                      !.last_push = m.last_push,
                                      !.min_gap = m.min_gap]

\* history: the task calls edit_message now
Push(m) ==
    [m EXCEPT !.last_push = now,
              !.min_gap = IF m.last_push < 0 THEN @
                          ELSE Min(@, now - m.last_push)]

\* lines 790-799: the sleep that ends an iteration
UpdateInterval(status) ==
    IF status = "sending" THEN active_update_interval
    ELSE waiting_update_interval

IterationSleep(m) ==
    [m EXCEPT !.pc = "sleep", !.wake = now + UpdateInterval(m.status)]

\* lines 806-880: after the loop, up to the final edit_message
FinalUpdate(m, camps) ==
    IF campaign_exists(camps, m.campaign_id)
    THEN Push([m EXCEPT !.pc = "final_edit", !.wake = 0])
    ELSE EndedMonitor(m)

\* lines 575-738: the loop test and one iteration up to its first await
Iterate(m, camps, monitors) ==
    IF m.campaign_id \notin monitors \/ ~campaign_exists(camps, m.campaign_id)
    THEN FinalUpdate(m, camps)
    ELSE LET m1 == [m EXCEPT !.status = camps[m.campaign_id].status]
         IN  IF now - m.last_successful_update >= MinUpdateSpacing
             THEN Push([m1 EXCEPT !.pc = "edit", !.wake = 0])
             ELSE IterationSleep(m1)

\* BackoffTime without the cap of line 786
BackoffTimeUncapped(update_failures) ==
    BackoffBase * 2 ^ (update_failures - BackoffAfter)

\* lines 783-787
BackoffTime(update_failures) ==
    Min(BackoffCap, BackoffBase * 2 ^ (update_failures - BackoffAfter))

\* EditFailed with a flood sleep of the wait alone, followed by the backoff
\* test of lines 783-787
EditFailedNoMargin(m, err) ==
    LET m1 == [m EXCEPT !.update_failures = @ + 1]
    IN  IF "wait" \in err.markers /\ err.of_seconds >= 0
        THEN [m1 EXCEPT !.pc = "flood_sleep", !.wake = now + err.of_seconds]
        ELSE IF m1.update_failures > BackoffAfter
        THEN [m1 EXCEPT !.pc = "backoff_sleep",
                        !.wake = now + BackoffTime(m1.update_failures)]
        ELSE IterationSleep(m1)

\* lines 744-799: edit_message of the loop raised err
EditFailed(m, err) ==
    LET m1 == [m EXCEPT !.update_failures = @ + 1]
    IN  IF "wait" \in err.markers /\ err.of_seconds >= 0
        THEN [m1 EXCEPT !.pc = "flood_sleep",
                        !.wake = now + err.of_seconds + SafetyMargin]
        ELSE LET m2 == IF "message to edit not found" \notin err.markers
                          /\ "message is not modified" \in err.markers
                       THEN [m1 EXCEPT !.last_successful_update = now]
                       ELSE m1
             IN  IF m2.update_failures > BackoffAfter
                 THEN [m2 EXCEPT !.pc = "backoff_sleep",
                                 !.wake = now + BackoffTime(m2.update_failures)]
                 ELSE IterationSleep(m2)

\* MonitorsAfterEditFailed with the subscription dropped on a rate limit
MonitorsAfterEditFailedOnWait(m, err, monitors) ==
    IF "wait" \in err.markers
    THEN stop_live_monitor(monitors, m.campaign_id)
    ELSE monitors

\* lines 773-776: the monitor unsubscribes itself
MonitorsAfterEditFailed(m, err, monitors) ==
    IF ~("wait" \in err.markers /\ err.of_seconds >= 0)
       /\ "message to edit not found" \in err.markers
    THEN stop_live_monitor(monitors, m.campaign_id)
    ELSE monitors

\* lines 881-911: edit_message of the final update raised err
DefaultFinalWait == 60      \* adbot.py:893
FinalEditFailed(m, err) ==
    IF "message to edit not found" \in err.markers THEN EndedMonitor(m)
    ELSE IF "message is not modified" \in err.markers THEN EndedMonitor(m)
    ELSE IF "wait" \in err.markers \/ "flood" \in err.markers
    THEN LET wait_time == IF err.a_wait_of_seconds >= 0
                          THEN err.a_wait_of_seconds ELSE DefaultFinalWait
         IN  [m EXCEPT !.pc = "final_sleep",
                       !.wake = now + wait_time + SafetyMargin]
    ELSE EndedMonitor(m)

MonitorDo(k, m, monitors) ==
    /\ mtasks' = [mtasks EXCEPT ![k] = m]
    /\ active_monitors' = monitors
    /\ UNCHANGED <<now, stored_messages, target_chats, forward_interval,
                   campaigns, order, targeted_campaigns, tasks, ftasks,
                   handlers, processed, limits, forwards,
                   failed_chats, classified,
                   dashboard, removed, retries,
                   admins, startup, received, scheduled_tasks>>

\* lines 558-575: the first step of the task
MonitorBegin(k) ==
    /\ mtasks[k].pc = "created"
    /\ MonitorDo(k, Iterate([mtasks[k] EXCEPT !.last_successful_update = now],
                            campaigns, active_monitors),
                 active_monitors)

\* lines 738-740
MonitorEditOk(k) ==
    /\ mtasks[k].pc = "edit"
    /\ MonitorDo(k, IterationSleep([mtasks[k] EXCEPT
                                       !.last_successful_update = now,
                                       !.update_failures = 0]),
                 active_monitors)

MonitorEditFailed(k) ==
    /\ mtasks[k].pc = "edit"
    /\ mtasks[k].update_failures < limits.maxFailures
    /\ \E err \in limits.editErrors :
          MonitorDo(k, EditFailed(mtasks[k], err),
                    MonitorsAfterEditFailed(mtasks[k], err, active_monitors))

\* a sleep of the task is over
MonitorWake(k) ==
    LET m == mtasks[k]
    IN  /\ m.pc \in {"sleep", "flood_sleep", "backoff_sleep", "final_sleep"}
        /\ now >= m.wake
        /\ MonitorDo(k,
              CASE m.pc = "sleep" -> Iterate(m, campaigns, active_monitors)
                [] m.pc = "flood_sleep" ->
                      \* lines 764-768
                      Iterate([m EXCEPT !.last_successful_update = now],
                              campaigns, active_monitors)
                [] m.pc = "backoff_sleep" -> IterationSleep(m)
                [] m.pc = "final_sleep" -> Push([m EXCEPT !.pc = "final_retry", !.wake = 0]),
              active_monitors)

\* lines 880 and 906: the final edit_message returned
MonitorFinalOk(k) ==
    /\ mtasks[k].pc \in {"final_edit", "final_retry"}
    /\ MonitorDo(k, EndedMonitor(mtasks[k]), active_monitors)

MonitorFinalFailed(k) ==
    /\ mtasks[k].pc \in {"final_edit", "final_retry"}
    /\ \E err \in limits.editErrors :
          MonitorDo(k, IF mtasks[k].pc = "final_edit"
                       THEN FinalEditFailed(mtasks[k], err)
                       ELSE EndedMonitor(mtasks[k]),
                    active_monitors)

\* lines 913-916: CancelledError, or an exception that no handler inside
\* the loop catches, reaches the task at its await; both handlers only log
MonitorCancelled(k) ==
    /\ mtasks[k].pc # "done"
    /\ MonitorDo(k, EndedMonitor(mtasks[k]), active_monitors)

\* the event loop is shut down: asyncio.run cancels the tasks that are left
Shutdown == \E k \in 1..Len(mtasks) : MonitorCancelled(k)

Monitor ==
    \E k \in 1..Len(mtasks) :
        \/ MonitorBegin(k)
        \/ MonitorEditOk(k)
        \/ MonitorEditFailed(k)
        \/ MonitorWake(k)
        \/ MonitorFinalOk(k)
        \/ MonitorFinalFailed(k)

\* time.time() and asyncio.sleep of the monitor compare times only by their
\* distance to the clock: once the clock has reached limits.maxTime, a second
\* passes by moving every time a monitor task holds one second back.  A time
\* further back than MinUpdateSpacing is kept at that distance and a wake
\* time that has passed is kept at 0; no test of the task tells them apart.
Elapsed(m) ==
    [m EXCEPT !.wake = Max(@ - 1, 0),
              !.last_successful_update = Max(@ - 1, now - MinUpdateSpacing),
              !.last_push = IF @ < 0 THEN @
                            ELSE Max(@ - 1, now - MinUpdateSpacing)]

Elapse ==
    /\ now = limits.maxTime
    /\ now >= MinUpdateSpacing
    /\ mtasks # <<>>
    /\ mtasks' = [k \in 1..Len(mtasks) |-> Elapsed(mtasks[k])]
    /\ UNCHANGED <<now, stored_messages, target_chats, forward_interval,
                   campaigns, order, active_monitors, targeted_campaigns,
                   tasks, ftasks, handlers, processed, limits, forwards,
                   failed_chats, classified,
                   dashboard, removed, retries,
                   admins, startup, received, scheduled_tasks>>

(***************************************************************************)
(* MessageForwarder.cmd_forward: the one-time forward.  The handler is no  *)
(* task of _forwarding_tasks; its frame is kept in forwards, where pc is   *)
(* the await it is suspended at:                                           *)
(*   reply   event.reply("Forwarding in progress") (line 3003)             *)
(*   send    get_me and ForwardMessagesRequest for target_list[idx + 1]    *)
(*           (lines 3039-3047); nothing is read or written between the two *)
(*   report  event.reply(result) (line 3108)                               *)
(*   done    the handler has returned                                      *)
(***************************************************************************)
NewForward(msg_id, campaign_id, targets) ==
    [msg_id |-> msg_id, campaign_id |-> campaign_id,
     target_list |-> ListOf(targets), idx |-> 0, pc |-> "reply",
     success_count |-> 0, fail_count |-> 0, failures |-> EmptyDict,
     \* history: the targets the message was forwarded to, in order
     sent |-> <<>>]

\* lines 3081-3091 with a second pass over the targets instead of the end
ForwardAfterTargetRepeats(f, camps) ==
    LET c == update_campaign(camps, f.campaign_id,
                 [total_sent |-> f.success_count, failed_sends |-> f.fail_count,
                  current_failures |-> f.failures, status |-> "sending"])
    IN  IF f.idx + 1 < Len(f.target_list)
        THEN [f |-> [f EXCEPT !.idx = @ + 1], c |-> c]
        ELSE IF Len(f.sent) <= Len(f.target_list)
        THEN [f |-> [f EXCEPT !.idx = 0], c |-> c]
        ELSE [f |-> [f EXCEPT !.pc = "report"],
              c |-> update_campaign(c, f.campaign_id, [status |-> "completed"])]

\* lines 3081-3091: after a target the totals are written; after the last
\* target the campaign is completed
ForwardAfterTarget(f, camps) ==
    LET c == update_campaign(camps, f.campaign_id,
                 [total_sent |-> f.success_count, failed_sends |-> f.fail_count,
                  current_failures |-> f.failures, status |-> "sending"])
    IN  IF f.idx + 1 < Len(f.target_list)
        THEN [f |-> [f EXCEPT !.idx = @ + 1], c |-> c]
        ELSE [f |-> [f EXCEPT !.pc = "report"],
              c |-> update_campaign(c, f.campaign_id, [status |-> "completed"])]

ForwardsLeft == Len(forwards) < limits.maxForwards

\* lines 2940-3003: /forward <msg_id> <targets>, up to the first reply
Forward(msg_id, targets, digit) ==
    /\ ForwardsLeft
    /\ msg_id \in stored_messages
    /\ targets # {}
    /\ LET forward_id == ForwardId(digit)
       IN  /\ campaigns' = add_campaign(campaigns, forward_id,
                              CampaignData(msg_id, Cardinality(targets), 0,
                                           "sending"))
           /\ order' = add_order(order, campaigns, forward_id)
           /\ processed' = ResetProcessed(processed, forward_id)
           /\ forwards' = Append(forwards,
                                 NewForward(msg_id, forward_id, targets))
    /\ UNCHANGED <<now, stored_messages, target_chats, forward_interval,
                   active_monitors, targeted_campaigns, tasks, ftasks,
                   handlers, limits, mtasks,
                   failed_chats, classified,
                   dashboard, removed, retries,
                   admins, startup, received, scheduled_tasks>>

\* lines 3003-3039: the reply returned; the monitor is started and the loop
\* reaches the send for the first target
ForwardMonitor(k) ==
    /\ forwards[k].pc = "reply"
    /\ active_monitors' =
           start_live_monitor(active_monitors, forwards[k].campaign_id)
    /\ mtasks' = Append(mtasks, NewMonitor(forwards[k].campaign_id))
    /\ forwards' = [forwards EXCEPT ![k].pc = "send"]
    /\ UNCHANGED <<now, stored_messages, target_chats, forward_interval,
                   campaigns, order, targeted_campaigns, tasks, ftasks,
                   handlers, processed, limits,
                   failed_chats, classified,
                   dashboard, removed, retries,
                   admins, startup, received, scheduled_tasks>>

\* lines 3003, 3110-3112: the reply raised; the handler reports the error
\* and returns
ForwardReplyFailed(k) ==
    /\ forwards[k].pc = "reply"
    /\ forwards' = [forwards EXCEPT ![k].pc = "done"]
    /\ UNCHANGED <<now, stored_messages, target_chats, forward_interval,
                   campaigns, order, active_monitors, targeted_campaigns,
                   tasks, ftasks, handlers, processed, limits, mtasks,
                   failed_chats, classified,
                   dashboard, removed, retries,
                   admins, startup, received, scheduled_tasks>>

ForwardDo(k, r) ==
    /\ forwards' = [forwards EXCEPT ![k] = r.f]
    /\ campaigns' = r.c
    /\ UNCHANGED <<now, stored_messages, target_chats, forward_interval,
                   order, active_monitors, targeted_campaigns, tasks, ftasks,
                   handlers, processed, limits, mtasks,
                   failed_chats, classified,
                   dashboard, removed, retries,
                   admins, startup, received, scheduled_tasks>>

\* lines 3043-3048, 3081-3091: the message was forwarded to the target
ForwardSendOk(k) ==
    LET f == forwards[k]
    IN  /\ f.pc = "send"
        /\ ForwardDo(k, ForwardAfterTarget(
                            [f EXCEPT !.success_count = @ + 1,
                                      !.sent = Append(@, f.target_list[f.idx + 1])],
                            campaigns))

\* lines 3062-3065, 3081-3091: get_me or the request raised
ForwardSendFailed(k) ==
    LET f == forwards[k]
    IN  /\ f.pc = "send"
        /\ f.target_list[f.idx + 1] \in limits.flaky
        /\ \E err \in limits.errors :
              ForwardDo(k, ForwardAfterTarget(
                              [f EXCEPT !.fail_count = @ + 1,
                                        !.failures = DictSet(@,
                                            f.target_list[f.idx + 1], err)],
                              campaigns))

\* lines 3094-3112: the result was reported, or reporting it raised
ForwardReported(k) ==
    /\ forwards[k].pc = "report"
    /\ forwards' = [forwards EXCEPT ![k].pc = "done"]
    /\ UNCHANGED <<now, stored_messages, target_chats, forward_interval,
                   campaigns, order, active_monitors, targeted_campaigns,
                   tasks, ftasks, handlers, processed, limits, mtasks,
                   failed_chats, classified,
                   dashboard, removed, retries,
                   admins, startup, received, scheduled_tasks>>

ForwardOnce ==
    \/ \E m \in Msgs, ts \in SUBSET limits.targets, d \in limits.digits :
          Forward(m, ts, d)
    \/ \E k \in 1..Len(forwards) :
          \/ ForwardMonitor(k)
          \/ ForwardReplyFailed(k)
          \/ ForwardSendOk(k)
          \/ ForwardSendFailed(k)
          \/ ForwardReported(k)

(***************************************************************************)
(* cmd_schedule and _schedule_forward: a message forwarded once at a       *)
(* later time.  scheduled_tasks holds one frame per /schedule command:     *)
(* the task created at line 2881 (pc) and the handler that created it      *)
(* (handler).                                                              *)
(*   pc:      sleep   asyncio.sleep(wait_seconds) (line 2753)              *)
(*            send    get_me / ForwardMessagesRequest for target_list[idx+1]*)
(*            done    the coroutine has returned                           *)
(*   handler: reply   event.reply of the confirmation (line 2917)          *)
(*            done    the handler has returned                             *)
(***************************************************************************)
NewScheduled(msg_id, schedule_id, schedule_time) ==
    [msg_id |-> msg_id, schedule_id |-> schedule_id, pc |-> "sleep",
     wake |-> schedule_time, target_list |-> <<>>, idx |-> 0,
     handler |-> "reply",
     \* history: the targets the message was forwarded to, in order
     sent |-> <<>>]

ScheduleUnchanged ==
    UNCHANGED <<now, stored_messages, target_chats, forward_interval,
                targeted_campaigns, tasks, ftasks, handlers, limits,
                forwards, failed_chats, classified, dashboard, removed,
                retries, admins, startup, received>>

\* cmd_schedule up to its first await (lines 2809-2917); the time argument
\* is the distance of schedule_time from now
Schedule(msg_id, delay, digit) ==
    /\ Len(scheduled_tasks) < limits.maxSchedules
    /\ msg_id \in stored_messages
    /\ delay >= 0
    /\ LET schedule_id == ScheduleId(digit)
       IN  /\ scheduled_tasks' =
                  Append(scheduled_tasks,
                         NewScheduled(msg_id, schedule_id, now + delay))
           /\ campaigns' = add_campaign(campaigns, schedule_id,
                              CampaignData(msg_id, Cardinality(target_chats),
                                           0, "waiting"))
           /\ order' = add_order(order, campaigns, schedule_id)
           /\ processed' = ResetProcessed(processed, schedule_id)
    /\ UNCHANGED <<active_monitors, mtasks>>
    /\ ScheduleUnchanged

\* lines 2917-2931: the replies returned; the monitor is started
ScheduleMonitor(k) ==
    /\ scheduled_tasks[k].handler = "reply"
    /\ active_monitors' =
           start_live_monitor(active_monitors, scheduled_tasks[k].schedule_id)
    /\ mtasks' = Append(mtasks, NewMonitor(scheduled_tasks[k].schedule_id))
    /\ scheduled_tasks' = [scheduled_tasks EXCEPT ![k].handler = "done"]
    /\ UNCHANGED <<campaigns, order, processed>>
    /\ ScheduleUnchanged

\* lines 2917, 2928, 2932-2934: a reply raised; the handler reports the
\* error and returns
ScheduleReplyFailed(k) ==
    /\ scheduled_tasks[k].handler = "reply"
    /\ scheduled_tasks' = [scheduled_tasks EXCEPT ![k].handler = "done"]
    /\ UNCHANGED <<campaigns, order, processed, active_monitors, mtasks>>
    /\ ScheduleUnchanged

\* the iterator of 'for target in targets' (line 2757): targets is
\* self.target_chats itself, and a set that changed its size while it is
\* iterated raises RuntimeError, which the handler at 2804 logs
ScheduledNext(t) ==
    IF \/ Cardinality(target_chats) # Len(t.target_list)
       \/ t.idx = Len(t.target_list)
    THEN [t EXCEPT !.pc = "done"]
    ELSE [t EXCEPT !.pc = "send"]

ScheduledDo(k, t) ==
    /\ scheduled_tasks' = [scheduled_tasks EXCEPT ![k] = t]
    /\ UNCHANGED <<campaigns, order, processed, active_monitors, mtasks>>
    /\ ScheduleUnchanged

\* lines 2748-2757: the sleep is over (or the time has come already); the
\* message is looked up, a KeyError is logged at 2804
ScheduledWake(k) ==
    LET t == scheduled_tasks[k]
    IN  /\ t.pc = "sleep"
        /\ now >= t.wake
        /\ ScheduledDo(k,
              IF t.msg_id \notin stored_messages
              THEN [t EXCEPT !.pc = "done"]
              ELSE ScheduledNext([t EXCEPT !.target_list =
                                               ListOf(target_chats)]))

\* lines 2787-2796: the message was forwarded to the target
ScheduledSendOk(k) ==
    LET t == scheduled_tasks[k]
    IN  /\ t.pc = "send"
        /\ ScheduledDo(k, ScheduledNext(
                             [t EXCEPT !.idx = @ + 1,
                                       !.sent = Append(@, t.target_list[t.idx + 1])]))

\* lines 2797-2798: get_me or the request raised; the error is logged
ScheduledSendFailed(k) ==
    LET t == scheduled_tasks[k]
    IN  /\ t.pc = "send"
        /\ t.target_list[t.idx + 1] \in limits.flaky
        /\ ScheduledDo(k, ScheduledNext([t EXCEPT !.idx = @ + 1]))

Scheduled ==
    \/ \E m \in Msgs, delay \in 0..MaxDelay, d \in limits.digits :
          Schedule(m, delay, d)
    \/ \E k \in 1..Len(scheduled_tasks) :
          \/ ScheduleMonitor(k)
          \/ ScheduleReplyFailed(k)
          \/ ScheduledWake(k)
          \/ ScheduledSendOk(k)
          \/ ScheduledSendFailed(k)

(***************************************************************************)
(* MessageForwarder.admins and the admin_only decorator.  ADMIN_USER_IDS   *)
(* is kept as the sequence of its comma-separated entries, each the        *)
(* integer it holds or Blank; the empty (or unset) variable is <<>>.       *)
(***************************************************************************)
primary_admin == 1715541908     \* adbot.py:1057

\* an entry that is empty or white space
Blank == 0 - 1

Entries(list) == {list[n] : n \in 1..Len(list)}

\* admin_ids_str.split(',')
Split(admin_ids_str) ==
    IF admin_ids_str = <<>> THEN <<Blank>> ELSE admin_ids_str

\* MessageForwarder.__init__, lines 1090-1094
AdminsOfInit(admin_ids_str) ==
    {id \in Entries(Split(admin_ids_str)) : id # Blank} \cup {primary_admin}

\* main, lines 6121-6131: int('') raises ValueError
AdminsOfMain(admin_ids_str, current) ==
    IF admin_ids_str = <<>> THEN current
    ELSE IF Blank \in Entries(Split(admin_ids_str)) THEN {primary_admin}
    ELSE Entries(Split(admin_ids_str))

\* the bot runs and ADMIN_USER_IDS is not set
Started ==
    /\ startup = [ADMIN_USER_IDS |-> <<>>, pc |-> "running"]
    /\ admins = AdminsOfMain(<<>>, AdminsOfInit(<<>>))

NoEvent == [sender |-> 0, command |-> "", admin |-> FALSE, ran |-> FALSE]

\* lines 47-105, the test of line 79; forwarding_enabled is taken as True
admin_only(sender, adms) == sender \in adms

(***************************************************************************)
(* The forwarder with its commands and engine tasks.                       *)
(***************************************************************************)
Constructed(lim) ==
    /\ now = 0
    /\ stored_messages = {}
    /\ target_chats = {}
    /\ forward_interval = DefaultInterval
    /\ campaigns = EmptyDict
    /\ order = <<>>
    /\ active_monitors = {}
    /\ targeted_campaigns = {}
    /\ tasks = <<>>
    /\ ftasks = EmptyDict
    /\ handlers = <<>>
    /\ processed = EmptyDict
    /\ limits = lim
    /\ forwards = <<>>
    /\ mtasks = <<>>
    /\ failed_chats = EmptyDict
    /\ dashboard = NotRendered
    /\ removed = NotRemoved
    /\ retries = <<>>
    /\ received = NoEvent
    /\ scheduled_tasks = <<>>

InitState(lim) ==
    /\ Constructed(lim)
    /\ classified = NotClassified
    /\ Started

\* The bounds of a specification: engine tasks ever created, rounds an
\* engine runs, last clock value, handlers suspended at once, the targets
\* configured, the digits generate_campaign_id() draws from, the error
\* texts a delivery can fail with and the targets whose delivery can fail.
Limits(maxTasks, maxRounds, maxTime, targets, digits, errors, flaky) ==
    [maxTasks |-> maxTasks, maxRounds |-> maxRounds, maxTime |-> maxTime,
     maxHandlers |-> MaxHandlers, targets |-> targets, digits |-> digits,
     errors |-> errors, flaky |-> flaky, maxForwards |-> 0,
     editErrors |-> {}, maxFailures |-> MaxFailures, maxSchedules |-> 0]

Init ==
    InitState(Limits(1, MaxRounds, MaxTime, 1..NumTargets, 1..MaxIdDigit,
                     ErrorTexts, 1..NumTargets))

Engine ==
    \E e \in 1..Len(tasks) :
        \/ EngineBegin(e)
        \/ EngineAttemptOk(e)
        \/ EngineAttemptFailed(e)
        \/ EngineFloodSleepDone(e)
        \/ EngineRetry(e)
        \/ EngineNextTarget(e)
        \/ EngineNextRound(e)
        \/ EngineCancelled(e)

CreateAd ==
    \/ \E m \in Msgs, arg \in IntervalArgs : StartAd(m, arg)
    \/ \E n \in 1..Len(handlers) : StartAdLaunch(n)
    \/ \E n \in 1..Len(handlers) : StartMonitor(n)

CreateTargeted ==
    \/ \E m \in Msgs, ts \in SUBSET limits.targets, arg \in IntervalArgs,
          d \in limits.digits :
          TargetedAd(m, ts, arg, d)
    \/ \E n \in 1..Len(handlers) : TargetedAdLaunch(n)

Create == CreateAd \/ CreateTargeted

Configure == \E arg \in IntervalArgs : Timer(arg)

\* /setad and one /addtarget that names every target of the specification
Setup == SetAd \/ AddTarget(limits.targets)

Stop ==
    \/ \E m \in Msgs \cup DOMAIN ftasks : StopAd(m)
    \/ StopAdAll
    \/ \E m \in Msgs : RemoveAd(m)

Next == Setup \/ Engine \/ Create \/ Configure \/ Stop \/ Tick

Spec == Init /\ [][Next]_vars

(***************************************************************************)
(* Campaign creation racing the engine tasks.                              *)
(***************************************************************************)
InitCreate ==
    InitState(Limits(CreateTasks, CreateRounds, CreateTime, 1..CreateTargets,
                     1..MaxIdDigit, FloodErrors, 1..CreateTargets))

NextCreate == Setup \/ Engine \/ Create \/ Tick

SpecCreate == InitCreate /\ [][NextCreate]_vars

(***************************************************************************)
(* remove_failed_chats called on the ledger while the engine fills it.     *)
(***************************************************************************)
\* a call of remove_failed_chats(chat_ids)
RemoveFailedChats(chat_ids) ==
    /\ removed.calls < MaxRemoves
    /\ LET r == remove_failed_chats(failed_chats, chat_ids)
       IN  /\ failed_chats' = r.failed_chats
           /\ removed' = [calls |-> removed.calls + 1, chat_ids |-> chat_ids,
                          removed_count |-> r.removed_count]
    /\ UNCHANGED <<now, stored_messages, target_chats, forward_interval,
                   campaigns, order, active_monitors, targeted_campaigns,
                   tasks, ftasks, handlers, processed, limits, forwards,
                   mtasks, classified, dashboard, retries,
                   admins, startup, received, scheduled_tasks>>

\* the lists of at most n chat IDs, each the int of a target or its text
RECURSIVE ChatIdLists(_)
ChatIdLists(n) ==
    IF n = 0 THEN {<<>>}
    ELSE LET shorter == ChatIdLists(n - 1)
             given == {IntKey(t) : t \in limits.targets}
                      \cup {str(IntKey(t)) : t \in limits.targets}
         IN  shorter \cup {Append(ids, id) : ids \in shorter, id \in given}

Remove ==
    \/ RemoveFailedChats(NoChatIds)
    \/ \E ids \in ChatIdLists(MaxChatIds) : RemoveFailedChats(ChatIds(ids))

InitRemove ==
    InitState(Limits(RemoveTasks, RemoveRounds, RemoveTime, 1..RemoveTargets,
                     {1}, {{"banned"}}, 1..RemoveTargets))

NextRemove == Setup \/ Engine \/ Create \/ Remove \/ Tick

SpecRemove == InitRemove /\ [][NextRemove]_vars

(***************************************************************************)
(* Retries of the targets of the ledger: cmd_retry_failed, the handler of   *)
(* /retryfailed, and retry_failed_chats with the tasks it creates.         *)
(*                                                                         *)
(* A frame of retries is one run of cmd_retry_failed (kind "cmd") or one   *)
(* task of _retry_message_to_chat (kind "task"); pc is the await it is     *)
(* suspended at:                                                           *)
(*   animation   the reply and the four frames of lines 5408-5419          *)
(*   starting    msg.edit of line 5479                                     *)
(*   attempt     get_me / ForwardMessagesRequest for chat_ids[idx]         *)
(*   finish      progress_msg.delete of line 5577                          *)
(*   get_entity  client.get_entity of lines 5322-5329                      *)
(*   send        client.send_file / send_message of lines 5343-5356        *)
(*   done        the coroutine has returned                                *)
(* success_count and new_failures of a task frame are history: how often   *)
(* it delivered and how often its handler of line 5364 ran.                *)
(***************************************************************************)
RetryFrame(kind, pc, chat_id, message_id, campaign_id) ==
    [kind |-> kind, pc |-> pc, chat_ids |-> <<>>, idx |-> 0,
     chat_id |-> chat_id, message_id |-> message_id,
     campaign_id |-> campaign_id, success_count |-> 0, new_failures |-> 0]

NoKey == <<"none", "">>

\* f"retry_{use_msg_id}_{timestamp}"
RetryId(use_msg_id, timestamp) ==
    "retry_" \o use_msg_id \o "_" \o ToString(timestamp)

\* list(a_dict.keys()): the keys of a dict in the order the dict holds them
RECURSIVE KeyList(_)
KeyList(S) ==
    IF S = {} THEN <<>>
    ELSE LET k == CHOOSE x \in S : TRUE
         IN  <<k>> \o KeyList(S \ {k})

\* lines 5553-5567: the record of target_key after a failed retry of
\* cmd_retry_failed
retry_failure(ledger, target_key, retry_campaign_id, error_message) ==
    IF target_key \in DOMAIN ledger
    THEN [ledger EXCEPT ![target_key] =
            [@ EXCEPT !.reason = _classify_error(error_message),
                      !.detail = error_message,
                      !.failed_count = @ + 1,
                      !.campaign_ids = @ \cup {retry_campaign_id},
                      !.error_history =
                          Append(@, HistoryEntry(retry_campaign_id,
                                                 error_message))]]
    ELSE ledger

\* lines 5372-5385: the record after _retry_message_to_chat raised
task_failure(ledger, chat_id, campaign_id, error_message) ==
    LET target_key == str(chat_id)
    IN  IF target_key \in DOMAIN ledger
        THEN [ledger EXCEPT ![target_key] =
                [@ EXCEPT !.reason = _classify_error(error_message),
                          !.detail = error_message,
                          !.failed_count = @ + 1,
                          !.campaign_ids = @ \cup {campaign_id}]]
        ELSE ledger

RetryUnchanged ==
    UNCHANGED <<now, stored_messages, target_chats, forward_interval,
                active_monitors, targeted_campaigns, tasks, ftasks, handlers,
                processed, limits, forwards, mtasks, classified, dashboard,
                removed, admins, startup, received, scheduled_tasks>>

\* lines 5387-5408: /retryfailed without filter; the handler is suspended
\* at the reply
CmdRetryFailed ==
    /\ Len(retries) < MaxRetries
    /\ retries' = Append(retries,
                         RetryFrame("cmd", "animation", NoKey, "", ""))
    /\ UNCHANGED <<campaigns, order, failed_chats>>
    /\ RetryUnchanged

\* lines 5421-5479: the records to retry and the message to send
RetrySelect(n) ==
    /\ retries[n].kind = "cmd" /\ retries[n].pc = "animation"
    /\ retries' =
         IF \/ failed_chats = EmptyDict
            \/ stored_messages = {}
            \/ Cardinality(DOMAIN failed_chats) > ConfirmAbove
         THEN [retries EXCEPT ![n].pc = "done"]
         ELSE [retries EXCEPT
                 ![n].pc = "starting",
                 ![n].message_id = CHOOSE m \in stored_messages : TRUE,
                 ![n].chat_ids = KeyList(DOMAIN failed_chats)]
    /\ UNCHANGED <<campaigns, order, failed_chats>>
    /\ RetryUnchanged

\* lines 5481-5499: the campaign of the retry
RetryBegin(n) ==
    /\ retries[n].kind = "cmd" /\ retries[n].pc = "starting"
    /\ LET retry_campaign_id == RetryId(retries[n].message_id, now)
       IN  /\ campaigns' =
                 add_campaign(campaigns, retry_campaign_id,
                     CampaignData(retries[n].message_id,
                                  Len(retries[n].chat_ids), 0, "running"))
           /\ order' = add_order(order, campaigns, retry_campaign_id)
           /\ retries' = [retries EXCEPT ![n].pc = "attempt", ![n].idx = 1,
                             ![n].chat_id = retries[n].chat_ids[1],
                             ![n].campaign_id = retry_campaign_id]
    /\ UNCHANGED failed_chats
    /\ RetryUnchanged

\* the next chat of the list, or the end of the loop
RetryAdvance(f) ==
    IF f.idx < Len(f.chat_ids)
    THEN [f EXCEPT !.idx = f.idx + 1, !.chat_id = f.chat_ids[f.idx + 1]]
    ELSE [f EXCEPT !.pc = "finish"]

\* lines 5505-5539: the forward to chat_id returned
RetryAttemptOk(n) ==
    /\ retries[n].kind = "cmd" /\ retries[n].pc = "attempt"
    /\ LET f == [retries[n] EXCEPT !.success_count = @ + 1]
       IN  /\ failed_chats' = IF f.chat_id \in DOMAIN failed_chats
                              THEN DictDel(failed_chats, f.chat_id)
                              ELSE failed_chats
           /\ campaigns' = update_campaign(campaigns, f.campaign_id,
                  [total_sent |-> f.success_count, status |-> "sending"])
           /\ retries' = [retries EXCEPT ![n] = RetryAdvance(f)]
    /\ UNCHANGED order
    /\ RetryUnchanged

\* lines 5540-5567: the forward to chat_id raised
RetryAttemptFailed(n, error_message) ==
    /\ retries[n].kind = "cmd" /\ retries[n].pc = "attempt"
    /\ LET f == [retries[n] EXCEPT !.new_failures = @ + 1]
       IN  /\ failed_chats' = retry_failure(failed_chats, f.chat_id,
                                            f.campaign_id, error_message)
           /\ campaigns' = update_campaign(campaigns, f.campaign_id,
                  [failed_sends |-> f.new_failures,
                   status |-> "sending_with_errors"])
           /\ retries' = [retries EXCEPT ![n] = RetryAdvance(f)]
    /\ UNCHANGED order
    /\ RetryUnchanged

\* lines 5576-5584
RetryFinish(n) ==
    /\ retries[n].kind = "cmd" /\ retries[n].pc = "finish"
    /\ campaigns' =
         update_campaign(
             update_campaign_status(campaigns, retries[n].campaign_id,
                                    "completed"),
             retries[n].campaign_id,
             [total_sent |-> retries[n].success_count,
              failed_sends |-> retries[n].new_failures])
    /\ retries' = [retries EXCEPT ![n].pc = "done"]
    /\ UNCHANGED <<order, failed_chats>>
    /\ RetryUnchanged

\* lines 5254-5314: target_chats, the keys of the records to retry
RetrySelection(ledger, chat_ids) ==
    IF chat_ids.none THEN KeyList(DOMAIN ledger)
    ELSE KeyList({str(chat_ids.ids[i]) : i \in 1..Len(chat_ids.ids)}
                 \cap DOMAIN ledger)

\* lines 5290-5304: one task of _retry_message_to_chat for every chat
RetryTasksFor(ledger, chat_id_list) ==
    [i \in 1..Len(chat_id_list) |->
        RetryFrame("task", "get_entity", chat_id_list[i], "default",
                   CHOOSE c \in ledger[chat_id_list[i]].campaign_ids : TRUE)]

\* a call of retry_failed_chats(chat_ids)
RetryFailedChats(chat_ids) ==
    LET chat_id_list == RetrySelection(failed_chats, chat_ids)
    IN  /\ Len(retries) + Len(chat_id_list) <= MaxRetries
        /\ retries' = retries \o RetryTasksFor(failed_chats, chat_id_list)
        /\ UNCHANGED <<campaigns, order, failed_chats>>
        /\ RetryUnchanged

\* lines 5316-5341: the entity is resolved and the stored message read
RetryTaskResolved(n) ==
    /\ retries[n].kind = "task" /\ retries[n].pc = "get_entity"
    /\ retries' = [retries EXCEPT ![n].pc =
                      IF retries[n].message_id \in stored_messages
                      THEN "send" ELSE "done"]
    /\ UNCHANGED <<campaigns, order, failed_chats>>
    /\ RetryUnchanged

\* lines 5322-5333: get_entity raised ValueError for the number and an
\* exception for the text
RetryTaskUnresolved(n) ==
    /\ retries[n].kind = "task" /\ retries[n].pc = "get_entity"
    /\ retries' = [retries EXCEPT ![n].pc = "done"]
    /\ UNCHANGED <<campaigns, order, failed_chats>>
    /\ RetryUnchanged

\* lines 5358-5367: the message was sent (self.dashboard does not exist,
\* so the campaign statistics of 5363-5367 are never written)
RetryTaskSent(n) ==
    /\ retries[n].kind = "task" /\ retries[n].pc = "send"
    /\ failed_chats' = IF str(retries[n].chat_id) \in DOMAIN failed_chats
                       THEN DictDel(failed_chats, str(retries[n].chat_id))
                       ELSE failed_chats
    /\ retries' = [retries EXCEPT ![n].pc = "done",
                                  ![n].success_count = @ + 1]
    /\ UNCHANGED <<campaigns, order>>
    /\ RetryUnchanged

\* lines 5368-5385: get_entity raised another exception than ValueError, or
\* the send raised
RetryTaskRaised(n, error_message) ==
    /\ retries[n].kind = "task" /\ retries[n].pc \in {"get_entity", "send"}
    /\ failed_chats' = task_failure(failed_chats, retries[n].chat_id,
                                    retries[n].campaign_id, error_message)
    /\ retries' = [retries EXCEPT ![n].pc = "done",
                                  ![n].new_failures = @ + 1]
    /\ UNCHANGED <<campaigns, order>>
    /\ RetryUnchanged

\* a handler of /retryfailed goes on from an await
RetrySteps ==
    \E n \in 1..Len(retries) :
        \/ RetrySelect(n)
        \/ RetryBegin(n)
        \/ RetryAttemptOk(n)
        \/ \E error_message \in limits.errors :
               RetryAttemptFailed(n, error_message)
        \/ RetryFinish(n)

RetryCommand == CmdRetryFailed \/ RetrySteps

RetryProgram ==
    \/ \E ids \in ChatIdLists(1) \ {<<>>} : RetryFailedChats(ChatIds(ids))
    \/ RetryFailedChats(NoChatIds)
    \/ \E n \in 1..Len(retries) :
         \/ RetryTaskResolved(n)
         \/ RetryTaskUnresolved(n)
         \/ RetryTaskSent(n)
         \/ \E error_message \in limits.errors :
                RetryTaskRaised(n, error_message)

InitRetry ==
    InitState(Limits(RetryTasks, RetryRounds, RetryTime, 1..RetryTargets,
                     {1}, {{"banned"}}, 1..RetryTargets))

NextRetry == Setup \/ Engine \/ Create \/ RetryCommand \/ RetryProgram \/ Tick

SpecRetry == InitRetry /\ [][NextRetry]_vars

(***************************************************************************)
(* Two campaigns of one message, and an exception that ends the control    *)
(* loop of an engine task.                                                 *)
(***************************************************************************)
InitFatal ==
    InitState(Limits(FatalTasks, FatalRounds, FatalTime, 1..FatalTargets,
                     {1}, FloodErrors, 1..FatalTargets))

Fatal == \E e \in 1..Len(tasks) : EngineFatal(e)

NextFatal == Setup \/ Engine \/ Create \/ Fatal \/ Tick

SpecFatal == InitFatal /\ [][NextFatal]_vars

(***************************************************************************)
(* One campaign of cmd_startad over BatchTargets targets; the deliveries   *)
(* to the targets at the batch boundary can fail.                          *)
(***************************************************************************)
BatchFlaky == {batch_size, batch_size + 1}

InitBatch ==
    InitState(Limits(1, BatchRounds, BatchTime, 1..BatchTargets, {1},
                     ErrorTexts, BatchFlaky))

NextBatch == Setup \/ Engine \/ CreateAd \/ Stop \/ Tick

SpecBatch == InitBatch /\ [][NextBatch]_vars

(***************************************************************************)
(* Two campaigns whose engines run side by side and fail the same target   *)
(* with either error text.                                                 *)
(***************************************************************************)
InitLedger ==
    InitState(Limits(LedgerTasks, LedgerRounds, LedgerTime, 1..LedgerTargets,
                     1..MaxIdDigit, ErrorTexts, 1..LedgerTargets))

NextLedger == Setup \/ Engine \/ Create \/ Tick

SpecLedger == InitLedger /\ [][NextLedger]_vars

(***************************************************************************)
(* _classify_error called once with any text of at most MaxMarkers marker  *)
(* substrings, in any of their spellings.                                  *)
(***************************************************************************)
Spellings == Markers \cup {p[1] : p \in CaseTable}

RECURSIVE TextsOf(_)
TextsOf(n) ==
    IF n = 0 THEN {{}}
    ELSE LET shorter == TextsOf(n - 1)
         IN  shorter \cup {e \cup {k} : e \in shorter, k \in Spellings}

Classify ==
    /\ ~classified.returned
    /\ classified' = [classified EXCEPT
                         !.tag = _classify_error(classified.error_message),
                         !.returned = TRUE]
    /\ UNCHANGED <<now, stored_messages, target_chats, forward_interval,
                   campaigns, order, active_monitors, targeted_campaigns,
                   tasks, ftasks, handlers, processed, limits, forwards,
                   mtasks, failed_chats,
                   dashboard, removed, retries,
                   admins, startup, received, scheduled_tasks>>

InitClassify ==
    /\ Constructed(Limits(0, 0, 0, {}, {}, {}, {}))
    /\ Started
    /\ classified \in {[error_message |-> e, tag |-> "", returned |-> FALSE] :
                          e \in TextsOf(MaxMarkers)}

NextClassify == Classify

SpecClassify == InitClassify /\ [][NextClassify]_vars

(***************************************************************************)
(* One-time forwards of cmd_forward next to the stop commands.             *)
(***************************************************************************)
InitForward ==
    InitState([Limits(0, 1, ForwardTime, 1..ForwardTargets, 1..MaxIdDigit,
                      ErrorTexts, 1..ForwardTargets)
               EXCEPT !.maxForwards = ForwardHandlers])

NextForward == Setup \/ ForwardOnce \/ Stop \/ Tick

SpecForward == InitForward /\ [][NextForward]_vars

(***************************************************************************)
(* One campaign of cmd_startad with its live monitor; the clock runs to    *)
(* MonitorTime and every edit_message can fail.                            *)
(***************************************************************************)
\* a rate-limit text without "of <n> seconds"
UnparsedWaitError == EditError({"wait"}, 0 - 1, 0 - 1)

EditErrors ==
    {FloodWaitError(FloodSeconds),
     UnparsedWaitError,
     EditError({"message to edit not found"}, 0 - 1, 0 - 1),
     EditError({"message is not modified"}, 0 - 1, 0 - 1),
     EditError({}, 0 - 1, 0 - 1)}

InitMonitor ==
    InitState([Limits(1, MonitorRounds, MonitorTime, 1..MonitorTargets, {1},
                      ErrorTexts, {})
               EXCEPT !.editErrors = EditErrors])

NextMonitor == Setup \/ Monitor \/ Engine \/ CreateAd \/ Stop \/ Tick

SpecMonitor == InitMonitor /\ [][NextMonitor]_vars

(***************************************************************************)
(* One one-time forward with its live monitor under a longer clock;        *)
(* edit_message fails with a flood wait of FloodWait seconds only.         *)
(***************************************************************************)
InitFlood ==
    InitState([Limits(0, 1, FloodTime, 1..MonitorTargets, {1},
                      ErrorTexts, 1..MonitorTargets)
               EXCEPT !.maxForwards = 1,
                      !.editErrors = {FloodWaitError(FloodWait)}])

NextFlood == Setup \/ Monitor \/ ForwardOnce \/ Stop \/ Tick

SpecFlood == InitFlood /\ [][NextFlood]_vars

(***************************************************************************)
(* The same under a shorter clock; edit_message fails only with a text     *)
(* that holds "wait" and no number of seconds.                             *)
(***************************************************************************)
InitUnparsed ==
    InitState([Limits(0, 1, UnparsedTime, 1..MonitorTargets, {1},
                      ErrorTexts, 1..MonitorTargets)
               EXCEPT !.maxForwards = 1,
                      !.editErrors = {UnparsedWaitError}])

SpecUnparsed == InitUnparsed /\ [][NextFlood]_vars

(***************************************************************************)
(* One-time forwards with their live monitors; generate_campaign_id()      *)
(* returns the same digit every time, and edit_message can fail with a     *)
(* text no rule of the monitor knows.                                      *)
(***************************************************************************)
InitAttach ==
    InitState([Limits(0, 1, AttachTime, 1..MonitorTargets, {1},
                      ErrorTexts, {})
               EXCEPT !.maxForwards = AttachForwards,
                      !.editErrors = {EditError({}, 0 - 1, 0 - 1)}])

SpecAttach == InitAttach /\ [][NextFlood]_vars

(***************************************************************************)
(* Start-up and the commands that reach the admin set or run without the   *)
(* decorator.  received holds, for the last command dispatched, its        *)
(* sender, whether the sender was an admin then, and whether the body of   *)
(* the handler was entered.                                                *)
(***************************************************************************)
UserIds == (1..MaxUserId) \cup {primary_admin}

RECURSIVE AdminIdLists(_)
AdminIdLists(n) ==
    IF n = 0 THEN {<<>>}
    ELSE LET shorter == AdminIdLists(n - 1)
         IN  shorter \cup {Append(l, id) : l \in shorter,
                                            id \in UserIds \cup {Blank}}

Event(sender, command, ran) ==
    [sender |-> sender, command |-> command,
     admin |-> sender \in admins, ran |-> ran]

\* the handlers are registered when main has set the admins
Registered == startup.pc = "running"

AdminUnchanged ==
    UNCHANGED <<now, stored_messages, target_chats, forward_interval,
                campaigns, order, active_monitors, targeted_campaigns, tasks,
                ftasks, handlers, processed, limits, forwards, mtasks,
                failed_chats, classified, dashboard, removed,
                scheduled_tasks>>

\* main, lines 6118-6131
Main ==
    /\ startup.pc = "constructed"
    /\ admins' = AdminsOfMain(startup.ADMIN_USER_IDS, admins)
    /\ startup' = [startup EXCEPT !.pc = "running"]
    /\ UNCHANGED <<retries, received>>
    /\ AdminUnchanged

\* /addadmin <user_id>: the decorator, then lines 4894-4917
AddAdmin(sender, user_id) ==
    /\ Registered
    /\ LET ran == admin_only(sender, admins)
       IN  /\ received' = Event(sender, "addadmin", ran)
           /\ admins' = IF ran THEN admins \cup {user_id} ELSE admins
    /\ UNCHANGED <<retries, startup>>
    /\ AdminUnchanged

\* /removeadmin <user_id>: the decorator, then lines 4923-4951
RemoveAdmin(sender, user_id) ==
    /\ Registered
    /\ LET ran == admin_only(sender, admins)
       IN  /\ received' = Event(sender, "removeadmin", ran)
           /\ admins' = IF ran /\ user_id # primary_admin
                        THEN admins \ {user_id} ELSE admins
    /\ UNCHANGED <<retries, startup>>
    /\ AdminUnchanged

\* /retryfailed: cmd_retry_failed is registered as it is defined at line
\* 5387, without the decorator; the handler is suspended at its reply
RetryFailedFrom(sender) ==
    /\ Registered
    /\ Len(retries) < MaxRetries
    /\ received' = Event(sender, "retryfailed", TRUE)
    /\ retries' = Append(retries,
                         RetryFrame("cmd", "animation", NoKey, "", ""))
    /\ UNCHANGED <<admins, startup>>
    /\ AdminUnchanged

Admin ==
    \E sender \in UserIds, user_id \in UserIds :
        \/ AddAdmin(sender, user_id)
        \/ RemoveAdmin(sender, user_id)

RetryFrom == \E sender \in UserIds : RetryFailedFrom(sender)

InitAdmin ==
    InitState(Limits(AdminTasks, AdminRounds, AdminTime, 1..AdminTargets,
                     {1}, {{"banned"}}, 1..AdminTargets))

NextAdmin ==
    Setup \/ Engine \/ Create \/ Admin \/ RetryFrom \/ RetrySteps \/ Tick

SpecAdmin == InitAdmin /\ [][NextAdmin]_vars

(***************************************************************************)
(* The bot from its constructor on, for every value of ADMIN_USER_IDS of   *)
(* up to MaxAdminIds entries, with /addadmin and /removeadmin.             *)
(***************************************************************************)
InitStartup ==
    /\ Constructed(Limits(0, 0, 0, {}, {}, {}, {}))
    /\ classified = NotClassified
    /\ \E admin_ids_str \in AdminIdLists(MaxAdminIds) :
          /\ startup = [ADMIN_USER_IDS |-> admin_ids_str,
                        pc |-> "constructed"]
          /\ admins = AdminsOfInit(admin_ids_str)

NextStartup == Main \/ Admin

SpecStartup == InitStartup /\ [][NextStartup]_vars

(***************************************************************************)
(* Scheduled forwards with their live monitors.                            *)
(***************************************************************************)
InitSchedule ==
    InitState([Limits(0, 1, ScheduleTime, 1..ScheduleTargets, {1, 2},
                      ErrorTexts, 1..ScheduleTargets)
               EXCEPT !.maxSchedules = MaxSchedules,
                      !.editErrors = {EditError({}, 0 - 1, 0 - 1)}])

NextSchedule == Setup \/ Scheduled \/ Monitor \/ Tick

SpecSchedule == InitSchedule /\ [][NextSchedule]_vars

(***************************************************************************)
(* One one-time forward with its live monitor; the monitor task can be     *)
(* cancelled at any of its awaits.                                         *)
(***************************************************************************)
InitShutdown ==
    InitState([Limits(0, 1, ShutdownTime, 1..MonitorTargets, {1},
                      ErrorTexts, {})
               EXCEPT !.maxForwards = 1,
                      !.editErrors = {EditError({}, 0 - 1, 0 - 1)}])

NextShutdown == Setup \/ Monitor \/ ForwardOnce \/ Stop \/ Shutdown \/ Tick

SpecShutdown == InitShutdown /\ [][NextShutdown]_vars

(***************************************************************************)
(* Two create-campaign handlers can be suspended in their animation at the *)
(* same time, with /stopad and /removead at any point.                     *)
(***************************************************************************)
InitOverlap ==
    InitState([Limits(OverlapTasks, OverlapRounds, OverlapTime,
                      1..MonitorTargets, {1}, ErrorTexts, {})
               EXCEPT !.maxHandlers = OverlapHandlers])

NextOverlap == Setup \/ Engine \/ Create \/ Stop \/ Tick

SpecOverlap == InitOverlap /\ [][NextOverlap]_vars

(***************************************************************************)
(* One one-time forward with its live monitor with no end of time;         *)
(* edit_message fails with a text that holds none of the markers of lines  *)
(* 749-781, at most MaxFailures times in a row.                            *)
(***************************************************************************)
InitBackoff ==
    InitState([Limits(0, 1, BackoffClock, 1..MonitorTargets, {1},
                      ErrorTexts, {})
               EXCEPT !.maxForwards = 1,
                      !.editErrors = {EditError({}, 0 - 1, 0 - 1)}])

NextBackoff == Setup \/ Monitor \/ ForwardOnce \/ Tick \/ Elapse

SpecBackoff == InitBackoff /\ [][NextBackoff]_vars

(***************************************************************************)
(* One campaign of /startad or /targetedad while /addtarget and            *)
(* /removealltarget change the target list.                                *)
(***************************************************************************)
InitTargets ==
    InitState(Limits(1, TargetsRounds, TargetsTime, 1..TargetsTargets, {1},
                     ErrorTexts, {}))

Targets ==
    \/ \E chat_ids \in SUBSET limits.targets : AddTarget(chat_ids)
    \/ RemoveAllTarget

NextTargets == SetAd \/ Targets \/ Engine \/ Create \/ Tick

SpecTargets == InitTargets /\ [][NextTargets]_vars

(***************************************************************************)
(* One campaign with the commands that render the dashboard.               *)
(***************************************************************************)
InitDashboard ==
    InitState(Limits(1, DashboardRounds, DashboardTime, 1..DashboardTargets,
                     {1}, ErrorTexts, 1..DashboardTargets))

Dashboard == \E targeted_only \in BOOLEAN : ShowDashboard(targeted_only)

NextDashboard == Setup \/ Engine \/ Create \/ Stop \/ Dashboard \/ Tick

SpecDashboard == InitDashboard /\ [][NextDashboard]_vars

(***************************************************************************)
(* Campaigns of /startad with their monitors, started one after another    *)
(* for the same message and stopped; every send and every edit_message     *)
(* returns.                                                                *)
(***************************************************************************)
InitStop ==
    InitState(Limits(StopTasks, StopRounds, StopTime, 1..MonitorTargets, {1},
                     ErrorTexts, {}))

SpecStop == InitStop /\ [][NextMonitor]_vars

(***************************************************************************)
(* A one-time forward and its live monitor with no end of time; every     *)
(* edit_message returns.  The event loop runs a monitor task whose await   *)
(* has returned, and time passes.                                          *)
(***************************************************************************)
InitLive ==
    InitState([Limits(0, 1, LiveTime, 1..MonitorTargets, {1},
                      ErrorTexts, 1..MonitorTargets)
               EXCEPT !.maxForwards = LiveForwards])

NextLive == Setup \/ Monitor \/ ForwardOnce \/ Stop \/ Tick \/ Elapse

SpecLive ==
    /\ InitLive /\ [][NextLive]_vars
    /\ WF_vars(Monitor)
    /\ WF_vars(Tick \/ Elapse)

(***************************************************************************)
(* Properties.                                                             *)
(***************************************************************************)
\* the task is inside a round: at an await of the batch loop
InRound(t) ==
    t.pc \in {"attempt", "flood_sleep", "retry_sleep", "natural_delay"}

\* C2: an engine task cancelled while a round is in progress ends at its
\* next step without starting another attempt: the coroutine returns (the
\* CancelledError is not raised out of it), the status of its campaign is
\* "cancelled" after that step, and a task that has ended never runs again.
C2_CancelledMidRound ==
    [][\A e \in 1..Len(tasks) :
         /\ (tasks[e].must_cancel /\ InRound(tasks[e]) /\ tasks'[e] # tasks[e])
               => /\ tasks'[e].pc = "done"
                  /\ tasks'[e].outcome = "returned"
                  /\ campaigns'[tasks[e].campaign_marker].status = "cancelled"
         /\ (tasks[e].pc = "done") => (tasks'[e] = tasks[e])]_vars

\* a campaign stopped by cmd_stopad in its first round with a target still
\* to send to, whose engine has handled the cancellation
C2_Witness ==
    \E e \in 1..Len(tasks) :
        LET c == campaigns[tasks[e].campaign_marker]
        IN  /\ tasks[e].pc = "done" /\ tasks[e].outcome = "returned"
            /\ stored_messages = Msgs
            /\ tasks[e].key \notin DOMAIN ftasks
            /\ c.status = "cancelled"
            /\ c.rounds_completed = 0
            /\ c.total_sent + c.failed_sends = 1
            /\ c.targets = 2

\* C3: once the status of a campaign is cancelled, error, completed or
\* stopped, no step changes it to a different value.
C3_TerminalSticky ==
    [][\A id \in DOMAIN campaigns :
         campaigns[id].status \in Terminal
            => campaigns'[id].status = campaigns[id].status]_vars

\* the step of task e is the final failure of its current target
TargetFails(e) ==
    /\ ~tasks[e].must_cancel /\ ~tasks'[e].must_cancel
    /\ tasks'[e] # tasks[e]
    /\ tasks[e].retry = max_retries - 1
    /\ \/ tasks[e].pc = "flood_sleep"
       \/ /\ tasks[e].pc = "attempt"
          /\ tasks'[e].pc \notin {"natural_delay", "flood_sleep"}

\* C4: the step in which a target uses up its attempts leaves the task in
\* its round with a status other than "error", and a round that reaches its
\* interval sleep has attempted every target of its snapshot.
C4_FailureKeepsRound ==
    [][\A e \in 1..Len(tasks) :
         /\ TargetFails(e)
               => /\ tasks'[e].pc # "done"
                  /\ tasks'[e].round_number = tasks[e].round_number
                  /\ campaigns'[tasks[e].campaign_marker].status # "error"
         /\ (tasks'[e].pc = "interval_sleep")
               => (tasks'[e].attempted = tasks'[e].target_list)]_vars

\* a round is over in which the first target failed and the second was
\* delivered
C4_Witness ==
    \E e \in 1..Len(tasks) :
        /\ tasks[e].pc = "interval_sleep"
        /\ DOMAIN tasks[e].current_failures = {1}
        /\ tasks[e].success_count = 1
        /\ tasks[e].attempted = <<1, 2>>
        /\ campaigns[tasks[e].campaign_marker].status = "waiting"

\* C5 as stated: while a task is in round N, total_sent + failed_sends of
\* its campaign is the number of targets finished so far in round N, and is
\* at most the number of targets.
C5_PerRoundCount ==
    \A e \in 1..Len(tasks) :
        InRound(tasks[e]) =>
            LET c == campaigns[tasks[e].campaign_marker]
            IN  /\ c.total_sent + c.failed_sends
                      = tasks[e].success_count + tasks[e].failure_count
                /\ c.total_sent + c.failed_sends <= Len(tasks[e].target_list)

\* C5 amended: the counters run on over the rounds.  While the only task of
\* a campaign is in round N over an unchanged target set, total_sent +
\* failed_sends is (N - 1) * len(targets) plus the number of targets
\* finished so far in round N, which is every target finished since the
\* record was created.
C5_CumulativeCount ==
    \A e \in 1..Len(tasks) :
        InRound(tasks[e]) =>
            LET c == campaigns[tasks[e].campaign_marker]
            IN  /\ c.total_sent + c.failed_sends
                      = (tasks[e].round_number - 1) * Len(tasks[e].target_list)
                        + tasks[e].success_count + tasks[e].failure_count
                /\ c.total_sent + c.failed_sends
                      = processed[tasks[e].campaign_marker]

\* a task in its second round with one target finished in that round
C5_Witness ==
    \E e \in 1..Len(tasks) :
        /\ InRound(tasks[e])
        /\ tasks[e].round_number = 2
        /\ tasks[e].success_count + tasks[e].failure_count = 1
        /\ campaigns[tasks[e].campaign_marker].total_sent
             + campaigns[tasks[e].campaign_marker].failed_sends = 3

\* every campaign of message msg_id is stopped or cancelled and no engine
\* task of the message is running
AlreadyStopped(msg_id) ==
    /\ \E id \in DOMAIN campaigns : campaigns[id].msg_id = msg_id
    /\ \A id \in DOMAIN campaigns :
          campaigns[id].msg_id = msg_id
             => campaigns[id].status \in {"stopped", "cancelled"}
    /\ \A e \in 1..Len(tasks) :
          tasks[e].msg_id = msg_id
             => (tasks[e].pc = "done" \/ tasks[e].must_cancel)

\* C8: cmd_stopad for a message whose campaign is already stopped or
\* cancelled changes no campaign status, no entry of the task table and no
\* monitor subscription, and cancels nothing.
C8_StopIdempotent ==
    [][\A m \in Msgs :
         (AlreadyStopped(m) /\ StopAd(m))
            => UNCHANGED <<campaigns, ftasks, active_monitors, tasks>>]_vars

\* the campaign of message 1 was stopped and its engine has ended
C8_Witness ==
    /\ AlreadyStopped("1")
    /\ ENABLED StopAd("1")
    /\ \E e \in 1..Len(tasks) : tasks[e].pc = "done"
    /\ \E id \in DOMAIN campaigns : campaigns[id].status = "cancelled"
    /\ "1" \notin DOMAIN ftasks

\* C9: a create-campaign command whose interval is below 60 adds no
\* campaign, starts no task and cancels no task; every engine task, every
\* campaign being created and the default interval have an interval of at
\* least 60.
C9_IntervalMinimum ==
    [][/\ \/ UNCHANGED <<campaigns, order, tasks, ftasks, handlers>>
          \/ \A m \in Msgs, v \in {x \in IntervalValues : x < MinInterval} :
                /\ ~StartAd(m, IntArg(v))
                /\ \A ts \in SUBSET limits.targets, d \in limits.digits :
                      ~TargetedAd(m, ts, IntArg(v), d)
       /\ \A e \in 1..Len(tasks') : tasks'[e].use_interval >= MinInterval
       /\ \A n \in 1..Len(handlers') : handlers'[n].interval >= MinInterval
       /\ forward_interval' >= MinInterval]_vars

\* an engine task runs with the smallest interval accepted
C9_Witness ==
    \E e \in 1..Len(tasks) :
        /\ tasks[e].use_interval = MinInterval
        /\ InRound(tasks[e])
        /\ campaigns[tasks[e].campaign_marker].interval = MinInterval

\* C6: while a campaign is in the registry, no step lowers its
\* rounds_completed, total_sent or failed_sends.
C6_CountersMonotonic ==
    [][\A id \in DOMAIN campaigns :
         /\ campaigns'[id].rounds_completed >= campaigns[id].rounds_completed
         /\ campaigns'[id].total_sent >= campaigns[id].total_sent
         /\ campaigns'[id].failed_sends >= campaigns[id].failed_sends]_vars

\* C10: a task in a round is in the batch that starts at a multiple of
\* 20, the batch holds the next 20 targets of the snapshot or the remainder,
\* and the targets whose attempts have started are the snapshot up to the
\* current target, in order and once each; of 45 targets the batches hold
\* 20, 20 and 5; when the second batch of the first round starts 20 targets
\* are counted (total_sent <= 20), and when the first round is over every
\* target has been attempted and rounds_completed is 1.
C10_Batches ==
    \A e \in 1..Len(tasks) :
        LET t == tasks[e]
            c == campaigns[t.campaign_marker]
            N == Len(t.target_list)
        IN  /\ InRound(t) =>
                /\ t.i % batch_size = 0 /\ t.i < N
                /\ Len(Batch(t.target_list, t.i)) = Min(batch_size, N - t.i)
                /\ t.j < Len(Batch(t.target_list, t.i))
                /\ t.attempted = SubSeq(t.target_list, 1, t.i + t.j + 1)
                /\ N = 45 => \/ t.i = 0 /\ Len(Batch(t.target_list, t.i)) = 20
                             \/ t.i = 20 /\ Len(Batch(t.target_list, t.i)) = 20
                             \/ t.i = 40 /\ Len(Batch(t.target_list, t.i)) = 5
                /\ (t.round_number = 1 /\ t.i = batch_size /\ t.j = 0
                      /\ t.retry = 0 /\ t.pc = "attempt")
                     => /\ c.total_sent + c.failed_sends = batch_size
                        /\ c.total_sent <= batch_size
            /\ (t.pc = "interval_sleep" /\ t.round_number = 1)
                  => /\ c.rounds_completed = 1
                     /\ t.attempted = t.target_list
                     /\ c.total_sent + c.failed_sends = N

\* the first round over 45 targets is complete, the last target of the
\* first batch having failed
C10_Witness ==
    \E e \in 1..Len(tasks) :
        /\ tasks[e].pc = "interval_sleep"
        /\ tasks[e].round_number = 1
        /\ Len(tasks[e].target_list) = 45
        /\ DOMAIN tasks[e].current_failures = {20}
        /\ campaigns[tasks[e].campaign_marker].rounds_completed = 1
        /\ campaigns[tasks[e].campaign_marker].total_sent = 44

\* C1: two pushes (edit_message calls) of one live monitor are never less
\* than MinUpdateSpacing seconds apart; the pushes that fail and the final
\* push after the loop count.
C1_PushSpacing ==
    \A k \in 1..Len(mtasks) : mtasks[k].min_gap >= MinUpdateSpacing

\* the forward has gone over all its targets and every send succeeded
ForwardedAll(f) ==
    /\ f.pc \in {"report", "done"}
    /\ f.fail_count = 0
    /\ f.sent # <<>>

\* no other /forward drew the campaign id of forwards[k]
OwnId(k) ==
    \A k2 \in 1..Len(forwards) :
        k2 # k => forwards[k2].campaign_id # forwards[k].campaign_id

\* C7: a one-time forward whose sends all succeed goes over its targets
\* once and in order, each target getting the message once; the step that
\* finishes the last target writes status "completed" and the full count,
\* the status stays "completed" for a campaign id no other forward drew,
\* and a forward that has finished its pass never sends again.
C7_OneShotCompletes ==
    /\ [](\A k \in 1..Len(forwards) :
            LET f == forwards[k]
            IN  /\ f.fail_count = 0 =>
                      /\ Len(f.sent) <= Len(f.target_list)
                      /\ \A n \in 1..Len(f.sent) : f.sent[n] = f.target_list[n]
                      /\ f.pc = "send" => Len(f.sent) = f.idx
                /\ ForwardedAll(f) =>
                      /\ f.sent = f.target_list
                      /\ OwnId(k) =>
                            /\ campaigns[f.campaign_id].status = "completed"
                            /\ campaigns[f.campaign_id].total_sent
                                   = Len(f.target_list)
                            /\ campaigns[f.campaign_id].failed_sends = 0)
    /\ [][\A k \in 1..Len(forwards) :
            LET f == forwards[k]
                g == forwards'[k]
            IN  /\ (f.pc = "send" /\ g.pc = "report" /\ g.fail_count = 0) =>
                      /\ g.sent = f.target_list
                      /\ campaigns'[f.campaign_id].status = "completed"
                      /\ campaigns'[f.campaign_id].total_sent
                             = Len(f.target_list)
                /\ f.pc \in {"report", "done"} =>
                      /\ g.pc \in {"report", "done"}
                      /\ g.sent = f.sent]_vars

C7_Witness ==
    \E k \in 1..Len(forwards) :
        /\ forwards[k].pc = "done"
        /\ forwards[k].fail_count = 0
        /\ forwards[k].sent = <<1, 2>>
        /\ campaigns[forwards[k].campaign_id].status = "completed"
        /\ campaigns[forwards[k].campaign_id].total_sent = 2

\* C11: the step in which a target uses up its attempts enters exactly one
\* failure in the ledger: the record of the target is created with
\* failed_count 1 or its failed_count grows by 1, one error_history entry is
\* appended, the campaign ID joins campaign_ids and reason is the class of
\* the last error; the records of the other targets stay as they are, and no
\* other step changes the ledger, whichever engine takes it.
C11_LedgerRecordsOnce ==
    [][/\ \A e \in 1..Len(tasks) :
            TargetFails(e) =>
               LET target == CurrentTarget(tasks[e])
                   k == TargetKey(target)
                   id == tasks[e].campaign_marker
                   new == failed_chats'[k]
                   last_error == campaigns'[id].current_failures[target]
               IN  /\ k \in DOMAIN failed_chats'
                   /\ new.reason = _classify_error(last_error)
                   /\ new.detail = last_error
                   /\ id \in new.campaign_ids
                   /\ IF k \in DOMAIN failed_chats
                      THEN /\ new.failed_count = failed_chats[k].failed_count + 1
                           /\ new.error_history =
                                 Append(failed_chats[k].error_history,
                                        HistoryEntry(id, last_error))
                           /\ new.campaign_ids =
                                 failed_chats[k].campaign_ids \cup {id}
                      ELSE /\ new.failed_count = 1
                           /\ new.error_history = <<HistoryEntry(id, last_error)>>
                           /\ new.campaign_ids = {id}
                   /\ \A k2 \in DOMAIN failed_chats' \ {k} :
                         /\ k2 \in DOMAIN failed_chats
                         /\ failed_chats'[k2] = failed_chats[k2]
       /\ (\A e \in 1..Len(tasks) : ~TargetFails(e))
             => failed_chats' = failed_chats]_vars

\* two engines have failed target 1, the later one with a "banned" error
C11_Witness ==
    /\ TargetKey(1) \in DOMAIN failed_chats
    /\ failed_chats[TargetKey(1)].failed_count = 2
    /\ Cardinality(failed_chats[TargetKey(1)].campaign_ids) = 2
    /\ Len(failed_chats[TargetKey(1)].error_history) = 2
    /\ failed_chats[TargetKey(1)].reason = "banned"

\* C12: while an engine is in a round, the current_failures a reader finds
\* in the registry for its campaign holds only targets that have used up
\* their attempts in that round.
C12_FailuresOfThisRound ==
    \A e \in 1..Len(tasks) :
        InRound(tasks[e]) =>
            DOMAIN campaigns[tasks[e].campaign_marker].current_failures
                \subseteq DOMAIN tasks[e].current_failures

\* the waits the parseable flood errors of the specification ask for
FloodWaits ==
    {err.of_seconds : err \in {x \in limits.editErrors :
                                  "wait" \in x.markers /\ x.of_seconds >= 0}}

\* C13: a push of the loop that fails with a flood wait of W seconds puts
\* the monitor to sleep until W + SafetyMargin seconds after the failure;
\* the monitor issues no push while it sleeps, wakes no earlier, and goes on
\* with its loop from there without a backoff sleep or a second flood sleep.
C13_FloodWaitRespected ==
    [][\A k \in 1..Len(mtasks) :
         LET m == mtasks[k]
             m2 == mtasks'[k]
         IN  /\ (m.pc = "edit" /\ m2.pc = "flood_sleep") =>
                   /\ m2.wake \in {now + W + SafetyMargin : W \in FloodWaits}
                   /\ m2.last_push = m.last_push
             /\ (m.pc = "flood_sleep" /\ m2.pc = "flood_sleep") =>
                   /\ m2.last_push = m.last_push
                   /\ m2.wake = m.wake
             /\ (m.pc = "flood_sleep" /\ m2.pc # "flood_sleep") =>
                   /\ now >= m.wake
                   /\ m2.pc \in {"sleep", "final_edit", "done"}
                   /\ m2.last_push # m.last_push => m2.last_push >= m.wake
                   /\ m2.pc = "sleep" =>
                         m2.wake = now + UpdateInterval(m2.status)]_vars

\* a monitor has slept out a flood wait of 12 seconds and pushed again, 17
\* seconds or more after the push that failed
C13_Witness ==
    \E k \in 1..Len(mtasks) :
        /\ mtasks[k].pc = "edit"
        /\ mtasks[k].update_failures = 1
        /\ mtasks[k].last_push >= mtasks[k].last_successful_update
        /\ mtasks[k].last_successful_update >= 6 + FloodWait + SafetyMargin

\* C14: a push of the loop that fails with a rate-limit text whose wait
\* cannot be parsed puts the monitor to sleep for DefaultFinalWait +
\* SafetyMargin seconds (every edit_message error of SpecUnparsed is such a
\* text).
C14_UnparsedWaitDefault ==
    [][\A k \in 1..Len(mtasks) :
         (/\ limits.editErrors = {UnparsedWaitError}
          /\ mtasks[k].pc = "edit"
          /\ mtasks'[k].update_failures = mtasks[k].update_failures + 1)
            => /\ mtasks'[k].pc = "flood_sleep"
               /\ mtasks'[k].wake = now + DefaultFinalWait + SafetyMargin]_vars

\* error_message.lower()
Lowered(error_message) == {ToLower(k) : k \in error_message}

\* the substrings one of which every rule of _classify_error needs
RuleMarkers == Markers \ {"topic", "message", "wait"}

\* C15: every call of _classify_error returns one of the ten tags, the tag
\* is a function of the text alone, it is the tag of the text written in
\* lower case (so texts that differ in letter case only get the same tag),
\* and it is "other" exactly when the text holds no substring a rule needs.
C15_ClassifyTotal ==
    classified.returned =>
        /\ classified.tag \in ErrorTags
        /\ classified.tag = _classify_error(classified.error_message)
        /\ classified.tag = _classify_error(Lowered(classified.error_message))
        /\ \A e \in TextsOf(MaxMarkers) :
              Lowered(e) = Lowered(classified.error_message)
                 => _classify_error(e) = classified.tag
        /\ classified.tag = "other"
              <=> Lowered(classified.error_message) \cap RuleMarkers = {}

\* a text with "BANNED" in capitals has been classified as banned
C15_Witness ==
    /\ classified.returned
    /\ "BANNED" \in classified.error_message
    /\ classified.tag = "banned"

\* C16: a text that holds "topic" and "not found", in any letter case, is
\* classified as topic_not_found.
C16_TopicBeforeNotFound ==
    (/\ classified.returned
     /\ InLower("topic", classified.error_message)
     /\ InLower("not found", classified.error_message))
        => classified.tag = "topic_not_found"

\* the monitor task is in its loop or in its final update
Monitoring(m) == m.pc \notin {"created", "done"}

\* C17: no two live-monitor tasks are at work for one campaign ID.
C17_OneMonitorPerCampaign ==
    \A k1, k2 \in 1..Len(mtasks) :
        (/\ k1 # k2
         /\ mtasks[k1].campaign_id = mtasks[k2].campaign_id
         /\ Monitoring(mtasks[k1]))
            => ~Monitoring(mtasks[k2])

\* C19: a stop-all step cancels every engine task that was running, leaves
\* the campaign registry empty and leaves no monitor subscription.
C19_StopAllClears ==
    [][StopAdAll =>
         /\ \A e \in 1..Len(tasks) :
               ~Done(e) => (tasks'[e].pc = "done" \/ tasks'[e].must_cancel)
         /\ DOMAIN campaigns' = {}
         /\ active_monitors' = {}]_vars

TerminalStatus == {"stopped", "cancelled", "completed", "error"}

\* the campaign of monitor task k is in the registry with a terminal status
MonitoredTerminal(k) ==
    /\ k \in 1..Len(mtasks)
    /\ Monitoring(mtasks[k])
    /\ campaign_exists(campaigns, mtasks[k].campaign_id)
    /\ campaigns[mtasks[k].campaign_id].status \in TerminalStatus

\* C18: when the campaign of a monitor task at work has a terminal status,
\* the task eventually returns.
C18_TerminalEndsMonitor ==
    \A k \in 1..LiveForwards :
        MonitoredTerminal(k) ~> (k \in 1..Len(mtasks) /\ mtasks[k].pc = "done")

\* the engine task of message msg_id is running for a campaign that has a
\* monitor subscription
RunningMonitored(msg_id) ==
    /\ msg_id \in DOMAIN ftasks
    /\ ~Done(ftasks[msg_id])
    /\ campaign_exists(campaigns, tasks[ftasks[msg_id]].campaign_marker)
    /\ tasks[ftasks[msg_id]].campaign_marker \in active_monitors

\* C20: cmd_stopad for a message whose running campaign has a monitor
\* leaves that campaign without monitor subscription, whatever else the
\* registry holds.
C20_StopDetachesMonitor ==
    [][\A m \in Msgs :
         (RunningMonitored(m) /\ StopAd(m))
            => tasks[ftasks[m]].campaign_marker \notin active_monitors']_vars

\* C21: a step that registers a campaign (cmd_startad, cmd_targetedad) uses an
\* ID that is not in the registry, and no two engine tasks were started for
\* one campaign ID.
C21_CampaignIdsUnique ==
    /\ [][\A n \in 1..Len(handlers) :
            (StartAdLaunch(n) \/ TargetedAdLaunch(n))
               => ~campaign_exists(campaigns, handlers[n].campaign_id)]_vars
    /\ [](\A e1, e2 \in 1..Len(tasks) :
            tasks[e1].campaign_marker = tasks[e2].campaign_marker => e1 = e2)

\* the targets of a list
Range(list) == {list[n] : n \in 1..Len(list)}

\* C22: the step that starts round k+1 of an engine task takes a snapshot
\* with the same targets as the snapshot of round k.
C22_TargetsImmutable ==
    [][\A e \in 1..Len(tasks) :
         (/\ tasks[e].round_number >= 1
          /\ tasks'[e].round_number = tasks[e].round_number + 1)
            => Range(tasks'[e].target_list) = Range(tasks[e].target_list)]_vars

\* C23: an engine task that ends while the message of its campaign is not in
\* the message store and the campaign is sending or waiting leaves the
\* campaign with status "stopped".
C23_RemovedMessageStops ==
    [][\A e \in 1..Len(tasks) :
         (/\ tasks[e].pc # "done"
          /\ tasks'[e].pc = "done"
          /\ tasks[e].msg_id \notin stored_messages
          /\ campaign_exists(campaigns, tasks[e].campaign_marker)
          /\ campaigns[tasks[e].campaign_marker].status
                \in {"sending", "waiting"})
            => campaigns'[tasks[e].campaign_marker].status = "stopped"]_vars

\* C24: the status of every campaign in the registry is one of running,
\* sending, waiting, stopped, cancelled, completed, error.
C24_StatusOfSeven ==
    \A id \in DOMAIN campaigns :
        campaigns[id].status \in
            {"running", "sending", "waiting"} \cup TerminalStatus

\* C25: a rendered dashboard lists a campaign as active only with status
\* running, sending, waiting or scheduled, as inactive only with a terminal
\* status, and no campaign in both groups.
C25_DashboardGroups ==
    /\ \A a \in dashboard.active :
          a[2] \in {"running", "sending", "waiting", "scheduled"}
    /\ \A a \in dashboard.inactive : a[2] \in TerminalStatus
    /\ \A a \in dashboard.active, b \in dashboard.inactive : a[1] # b[1]

\* C26: a step of a live-monitor task, whatever the outcome of its push,
\* changes no registry entry, no engine task and no entry of the task table;
\* it removes at most its own subscription, and only when edit_message
\* failed with "message to edit not found".
C26_PushFailuresLocal ==
    [][\A k \in 1..Len(mtasks) :
         (mtasks'[k] # mtasks[k] /\ Monitor) =>
            /\ UNCHANGED <<campaigns, order, tasks, ftasks, stored_messages,
                           target_chats, failed_chats>>
            /\ \/ active_monitors' = active_monitors
               \/ /\ active_monitors' =
                        active_monitors \ {mtasks[k].campaign_id}
                  /\ mtasks[k].pc = "edit"
                  /\ \E err \in limits.editErrors :
                        /\ "message to edit not found" \in err.markers
                        /\ mtasks'[k] = EditFailed(mtasks[k], err)]_vars

\* a push failed and the monitor dropped its subscription while the engine
\* of its campaign is in a round
C26_Witness ==
    \E k \in 1..Len(mtasks), e \in 1..Len(tasks) :
        /\ mtasks[k].pc = "sleep"
        /\ mtasks[k].update_failures > 0
        /\ mtasks[k].campaign_id \notin active_monitors
        /\ tasks[e].campaign_marker = mtasks[k].campaign_id
        /\ InRound(tasks[e])
        /\ ~tasks[e].must_cancel
        /\ tasks[e].key \in DOMAIN ftasks
        /\ campaigns[mtasks[k].campaign_id].status = "sending"

\* the step in which the handler of lines 1496-1504 ends engine task e
FatalStep(e) ==
    /\ tasks[e].pc \in ControlLoop /\ ~tasks[e].must_cancel
    /\ tasks'[e].pc = "done"
    /\ tasks[e].campaign_marker \in DOMAIN campaigns'
    /\ campaigns'[tasks[e].campaign_marker].status = "error"

\* C27: an exception that ends the control loop of the engine task of
\* campaign A writes only A's registry entry, ends only A's engine task and
\* leaves the registry entry, the engine task and the task-table
\* registration of every other campaign as they were.
C27_FatalIsLocal ==
    [][\A e \in 1..Len(tasks) :
         FatalStep(e) =>
            /\ \A c \in DOMAIN campaigns \ {tasks[e].campaign_marker} :
                 c \in DOMAIN campaigns' /\ campaigns'[c] = campaigns[c]
            /\ \A o \in (1..Len(tasks)) \ {e} : tasks'[o] = tasks[o]
            /\ \A k \in DOMAIN ftasks :
                 ftasks[k] # e =>
                    k \in DOMAIN ftasks' /\ ftasks'[k] = ftasks[k]]_vars

\* the targets a call of remove_failed_chats lists, by number or by text
Listed(chat_ids) ==
    {t \in limits.targets :
        \E n \in 1..Len(chat_ids.ids) :
            chat_ids.ids[n] \in {IntKey(t), str(IntKey(t))}}

\* C28: a call of remove_failed_chats with a list of targets deletes the
\* record the engine entered for every listed target that has one, leaves
\* the records of the other targets as they were and returns the number of
\* records it deleted; with the empty list it returns 0 and changes nothing.
C28_RemoveListed ==
    [][removed'.calls # removed.calls /\ ~removed'.chat_ids.none =>
         LET listed == Listed(removed'.chat_ids)
             had == {t \in listed : TargetKey(t) \in DOMAIN failed_chats}
         IN  /\ \A t \in listed : TargetKey(t) \notin DOMAIN failed_chats'
             /\ \A t \in limits.targets \ listed :
                  /\ TargetKey(t) \in DOMAIN failed_chats
                       <=> TargetKey(t) \in DOMAIN failed_chats'
                  /\ TargetKey(t) \in DOMAIN failed_chats
                       => failed_chats'[TargetKey(t)]
                            = failed_chats[TargetKey(t)]
             /\ removed'.removed_count = Cardinality(had)]_vars

\* C29: a retry that delivers to a target leaves the target without a
\* record; a retry that fails for a target that has a record keeps the
\* record with failed_count one higher; a step of the engine in which a
\* delivery succeeds leaves the ledger as it was.
C29_RetryAndLedger ==
    /\ [][\A n \in 1..Len(retries) :
            LET T == retries[n].chat_id
                delivered ==
                    retries'[n].success_count = retries[n].success_count + 1
                failed ==
                    retries'[n].new_failures = retries[n].new_failures + 1
            IN  /\ delivered => T \notin DOMAIN failed_chats'
                /\ (failed /\ T \in DOMAIN failed_chats)
                     => (/\ T \in DOMAIN failed_chats'
                         /\ failed_chats'[T].failed_count
                              = failed_chats[T].failed_count + 1)]_vars
    /\ [][\A e \in 1..Len(tasks) :
            (tasks'[e].success_count = tasks[e].success_count + 1)
                => failed_chats' = failed_chats]_vars

\* engine task e enters a round and starts the first attempt of the round
FirstAttempt(e) ==
    /\ tasks'[e].round_number = tasks[e].round_number + 1
    /\ tasks'[e].pc = "attempt"

\* engine task e reaches the interval sleep of line 1489
BeginsIntervalSleep(e) ==
    /\ tasks[e].pc # "interval_sleep"
    /\ tasks'[e].pc = "interval_sleep"

\* C30: the step that takes an engine task into the first attempt of a
\* round has written status "sending"; the step that takes it into the
\* interval sleep has attempted every target of the round's snapshot and has
\* written status "waiting" with next_round_time = now + interval; and the
\* status of a campaign becomes "waiting" only in such a step of its engine.
C30_RoundBoundaries ==
    /\ [][\A e \in 1..Len(tasks) :
            FirstAttempt(e) =>
               (/\ campaigns'[tasks[e].campaign_marker].status = "sending"
                /\ Len(tasks'[e].attempted) = 1)]_vars
    /\ [][\A e \in 1..Len(tasks) :
            BeginsIntervalSleep(e) =>
               (/\ tasks'[e].attempted = tasks'[e].target_list
                /\ campaigns'[tasks[e].campaign_marker].status = "waiting"
                /\ campaigns'[tasks[e].campaign_marker].next_round_time
                     = now + tasks[e].use_interval)]_vars
    /\ [][\A c \in DOMAIN campaigns :
            (campaigns[c].status # "waiting"
             /\ campaigns'[c].status = "waiting") =>
               (\E e \in 1..Len(tasks) :
                   /\ tasks[e].campaign_marker = c
                   /\ BeginsIntervalSleep(e)
                   /\ tasks'[e].attempted = tasks'[e].target_list)]_vars

\* a round over all BatchTargets targets has ended and the engine sleeps
C30_Witness ==
    \E e \in 1..Len(tasks) :
        /\ tasks[e].pc = "interval_sleep"
        /\ Len(tasks[e].attempted) = BatchTargets
        /\ tasks[e].round_number = BatchRounds
        /\ campaigns[tasks[e].campaign_marker].status = "waiting"
        /\ campaigns[tasks[e].campaign_marker].next_round_time
             = now + tasks[e].use_interval

\* the awaits of the retry loop of one target
RetryLoop == {"attempt", "flood_sleep", "retry_sleep"}

\* the place of the current target: the round, the batch and the index in it
Place(t) == <<t.round_number, t.i, t.j>>

\* C31: an engine task is never in a fourth attempt for a target; a further
\* attempt for the same target follows only the sleep after a failed one;
\* after a successful attempt the task makes no further attempt for that
\* target; a third failed attempt counts the target as failed, and the task
\* moves on; a target is counted as failed after no fewer than three and
\* counted at all only after it was attempted.
C31_AttemptsPerTarget ==
    /\ [](\A e \in 1..Len(tasks) :
            tasks[e].pc \in RetryLoop
               => tasks[e].retry \in 0..(max_retries - 1))
    /\ [][\A e \in 1..Len(tasks) :
            LET t == tasks[e]
                u == tasks'[e]
                same == Place(u) = Place(t) /\ u.pc \in RetryLoop
            IN  /\ (t.pc \in RetryLoop /\ same /\ u.retry # t.retry)
                     => (/\ t.pc = "retry_sleep"
                         /\ u.pc = "attempt"
                         /\ u.retry = t.retry + 1)
                /\ (u.success_count = t.success_count + 1)
                     => (t.pc = "attempt" /\ u.pc = "natural_delay")
                /\ (t.pc = "natural_delay") => ~same
                /\ (/\ u # t /\ ~u.must_cancel
                    /\ t.pc \in {"attempt", "flood_sleep"}
                    /\ t.retry = max_retries - 1
                    /\ u.pc \notin {"done", "flood_sleep"}
                    /\ u.success_count = t.success_count)
                     => (u.failure_count = t.failure_count + 1 /\ ~same)
                /\ (u.failure_count = t.failure_count + 1)
                     => (/\ t.pc \in {"attempt", "flood_sleep"}
                         /\ t.retry = max_retries - 1
                         /\ t.attempted # <<>>
                         /\ t.attempted[Len(t.attempted)] = CurrentTarget(t))
               ]_vars

\* in one round a target was delivered to and another used up its attempts
C31_Witness ==
    \E e \in 1..Len(tasks) :
        /\ tasks[e].success_count = 1
        /\ tasks[e].failure_count = 1
        /\ tasks[e].pc = "interval_sleep"

\* C32: an engine task goes from a batch to the first target of the next
\* batch only out of the sleep between batches.
C32_SleepBetweenBatches ==
    [][\A e \in 1..Len(tasks) :
         (/\ tasks'[e].round_number = tasks[e].round_number
          /\ tasks'[e].i > tasks[e].i)
            => tasks[e].pc = "batch_sleep"]_vars

\* C33: rounds_completed of a campaign changes only in the step in which a
\* round of the campaign ends, and then it grows by one.
C33_RoundsCompleted ==
    [][\A c \in DOMAIN campaigns :
         LET ends == \E e \in 1..Len(tasks) :
                        /\ tasks[e].campaign_marker = c
                        /\ BeginsIntervalSleep(e)
         IN  /\ ends => campaigns'[c].rounds_completed
                          = campaigns[c].rounds_completed + 1
             /\ campaigns'[c].rounds_completed
                  # campaigns[c].rounds_completed => ends]_vars

\* a push of the loop of monitor task k has failed in this step
PushFailed(k) ==
    /\ mtasks[k].pc = "edit"
    /\ mtasks'[k].update_failures = mtasks[k].update_failures + 1

\* the task is put to sleep for its update interval alone
IntervalSleepOnly(k) ==
    /\ mtasks'[k].pc = "sleep"
    /\ mtasks'[k].wake = now + UpdateInterval(mtasks'[k].status)

\* C34: a push that fails with an error that is no rate limit is followed by
\* no backoff sleep while it is the first, second or third failure in a row;
\* from the fourth on it is followed by a backoff sleep of 10, 20 and then
\* 30 seconds, twice the one before but never more than 30; a push that
\* returns sets the count of failures in a row to zero.
C34_BackoffAfterThree ==
    [][\A k \in 1..Len(mtasks) :
         LET f == mtasks'[k].update_failures
         IN  /\ (PushFailed(k) /\ mtasks'[k].pc # "flood_sleep" /\ f <= 3)
                  => IntervalSleepOnly(k)
             /\ (PushFailed(k) /\ mtasks'[k].pc # "flood_sleep" /\ f > 3)
                  => /\ mtasks'[k].pc = "backoff_sleep"
                     /\ mtasks'[k].wake - now
                          = (CASE f = 4 -> 10 [] f = 5 -> 20 [] OTHER -> 30)
                     /\ mtasks'[k].wake - now <= 30
             /\ (mtasks[k].pc = "edit" /\ ~PushFailed(k)
                   /\ mtasks'[k].pc # "edit")
                  => /\ mtasks'[k].update_failures = 0
                     /\ IntervalSleepOnly(k)]_vars

\* the sixth failure in a row has put a monitor to sleep for the cap
C34_Witness ==
    \E k \in 1..Len(mtasks) :
        /\ mtasks[k].pc = "backoff_sleep"
        /\ mtasks[k].update_failures = 6
        /\ mtasks[k].wake - now = BackoffCap

\* the step finishes a target of engine task e: an attempt delivered, or
\* the last attempt has failed
FinishesTarget(e) ==
    /\ tasks[e].pc \in RetryLoop
    /\ \/ tasks'[e].success_count = tasks[e].success_count + 1
       \/ tasks'[e].failure_count = tasks[e].failure_count + 1

\* C35: the step that finishes a target adds one to total_sent and leaves
\* failed_sends alone when an attempt delivered, and adds one to failed_sends
\* and leaves total_sent alone when the last attempt failed; and a task that
\* has completed k rounds over its n targets sleeps its interval with
\* total_sent + failed_sends = k * n in the record of its campaign.
C35_OneCounterPerTarget ==
    /\ [][\A e \in 1..Len(tasks) :
            FinishesTarget(e) =>
              LET c == tasks[e].campaign_marker
                  sent == campaigns'[c].total_sent - campaigns[c].total_sent
                  failed == campaigns'[c].failed_sends
                               - campaigns[c].failed_sends
              IN  /\ tasks'[e].success_count = tasks[e].success_count + 1
                       => (sent = 1 /\ failed = 0)
                  /\ tasks'[e].failure_count = tasks[e].failure_count + 1
                       => (sent = 0 /\ failed = 1)
                  /\ sent + failed = 1]_vars
    /\ [](\A e \in 1..Len(tasks) :
            tasks[e].pc = "interval_sleep" =>
              LET c == campaigns[tasks[e].campaign_marker]
              IN  c.total_sent + c.failed_sends
                    = tasks[e].round_number * Len(tasks[e].target_list))

\* C36: every engine task that has not finished and has no cancellation
\* pending is the value of some entry of _forwarding_tasks.
C36_RunningIsRegistered ==
    \A e \in 1..Len(tasks) :
        Running(e) => \E k \in DOMAIN ftasks : ftasks[k] = e

\* C38: every campaign ID that is a key of active_monitors has a
\* live-monitor task that has not finished.
C38_MonitoredHasTask ==
    \A c \in active_monitors :
        \E k \in 1..Len(mtasks) :
            mtasks[k].campaign_id = c /\ mtasks[k].pc # "done"

\* C39: the body of a handler is entered only for a command whose sender is
\* in the admin set, and the step that dispatches a command of any other
\* sender changes nothing of the forwarder, the registry or the handlers.
C39_AdminOnly ==
    /\ [](received.ran => received.admin)
    /\ [][(received' # received /\ ~received'.admin) =>
            UNCHANGED <<stored_messages, target_chats, forward_interval,
                        campaigns, order, active_monitors,
                        targeted_campaigns, tasks, ftasks, handlers,
                        forwards, mtasks, failed_chats, retries, admins,
                        scheduled_tasks>>]_vars

\* C40: once main has set the admins, primary_admin is one of them; it is
\* one of them after the constructor too.
C40_PrimaryAdminStays == primary_admin \in admins

(***************************************************************************)
(* C37: a campaign whose driver has finished has a terminal status.  The   *)
(* driver of a repeating campaign is its engine task, of a one-time        *)
(* forward the handler of the command, of a scheduled campaign the task    *)
(* that sleeps and forwards.  Whenever a driver has returned and no other  *)
(* driver of the same campaign is still at work, the status held in the    *)
(* registry is one of stopped, cancelled, completed, error.                *)
(***************************************************************************)
EngineAtWork(campaign_id) ==
    \E e \in 1..Len(tasks) :
        tasks[e].campaign_marker = campaign_id /\ ~Done(e)

ForwardAtWork(campaign_id) ==
    \E k \in 1..Len(forwards) :
        forwards[k].campaign_id = campaign_id /\ forwards[k].pc # "done"

ScheduledAtWork(campaign_id) ==
    \E k \in 1..Len(scheduled_tasks) :
        /\ scheduled_tasks[k].schedule_id = campaign_id
        /\ scheduled_tasks[k].pc # "done"

Finished(campaign_id) ==
    /\ campaign_exists(campaigns, campaign_id)
    /\ ~EngineAtWork(campaign_id)
    /\ ~ForwardAtWork(campaign_id)
    /\ ~ScheduledAtWork(campaign_id)

EngineFinishedIsTerminal ==
    \A e \in 1..Len(tasks) :
        (Done(e) /\ Finished(tasks[e].campaign_marker)) =>
            campaigns[tasks[e].campaign_marker].status \in TerminalStatus

ForwardFinishedIsTerminal ==
    \A k \in 1..Len(forwards) :
        (forwards[k].pc = "done" /\ Finished(forwards[k].campaign_id)) =>
            campaigns[forwards[k].campaign_id].status \in TerminalStatus

ScheduledFinishedIsTerminal ==
    \A k \in 1..Len(scheduled_tasks) :
        (scheduled_tasks[k].pc = "done"
         /\ Finished(scheduled_tasks[k].schedule_id)) =>
            campaigns[scheduled_tasks[k].schedule_id].status \in TerminalStatus

C37_FinishedIsTerminal ==
    /\ EngineFinishedIsTerminal
    /\ ForwardFinishedIsTerminal
    /\ ScheduledFinishedIsTerminal

====
